---------------------------- MODULE Spec2Model ----------------------------
(***************************************************************************)
(* A model of the redo undo/redo library: the linear Record, the branching *)
(* History built on it (history.rs), and the Checkpoint (checkpoint.rs)    *)
(* and Queue (queue.rs) wrappers.                                          *)
(*                                                                         *)
(* The commands are the `Add(char)` commands of the crate's tests: apply   *)
(* pushes the character on a String receiver, undo pops the last character *)
(* into the command.  Characters are written as numbers.  Add keeps the    *)
(* default `merge` (never merges), so the record's merge path is not       *)
(* exercised.  A second kind of command, whose apply always fails and      *)
(* leaves the receiver alone, stands for a client command returning Err.   *)
(*                                                                         *)
(* Signals are outputs: an operator returns the timeline with the signals  *)
(* it delivered in record.slot, and an action keeps the timeline without   *)
(* them.                                                                   *)
(***************************************************************************)
EXTENDS Integers, Sequences, FiniteSets, TLC

\* ------------------------------------------------------------------ bounds
\* Commands the client constructs in one behaviour; the k-th one made is
\* Add(k) (or the failing command k), so no two commands are alike.
MaxCommands == 4
\* Wrappers (checkpoints, queues) open at the same time.
MaxDepth == 3
\* Actions a checkpoint may hold.
MaxActions == 2
\* Actions a queue may hold.
MaxQueue == 3
\* Commands the client constructs in a behaviour that opens wrappers.
MaxWrapped == 3
\* Commands the client constructs in a behaviour that evicts entries.
MaxEvicting == 6

\* ------------------------------------------------------------ Option, At
None == <<>>
Some(x) == <<x>>
IsSome(o) == o # <<>>

At(b, c) == [branch |-> b, current |-> c]

\* Record::new: no limit (usize::MAX), written as the largest integer TLC has.
NoLimit == 2147483647

\* ---------------------------------------------------------------- Command
\* Entry::from(command): the entry of an Add(ch) command, or of a command
\* whose apply returns Err.
Add(ch) == [ch |-> ch, kind |-> "Add"]
Failing(ch) == [ch |-> ch, kind |-> "Failing"]
\* The entry of a command that applies as Add does and whose undo returns Err.
Stuck(ch) == [ch |-> ch, kind |-> "Stuck"]

\* Command::apply for the two kinds: Add pushes its character; the failing
\* command returns Err and leaves the receiver unchanged.
CommandApply(entry, receiver) ==
    IF entry.kind = "Failing"
    THEN [ok |-> FALSE, entry |-> entry, receiver |-> receiver]
    ELSE [ok |-> TRUE, entry |-> entry, receiver |-> Append(receiver, entry.ch)]

\* Add::undo: self.0 = receiver.pop().ok_or("`receiver` is empty")?
CommandUndo(entry, receiver) ==
    IF receiver = <<>> \/ entry.kind = "Stuck"
    THEN [ok |-> FALSE, entry |-> entry, receiver |-> receiver]
    ELSE [ok |-> TRUE,
          entry |-> [entry EXCEPT !.ch = receiver[Len(receiver)]],
          receiver |-> SubSeq(receiver, 1, Len(receiver) - 1)]

\* Command::redo defaults to apply.
CommandRedo(entry, receiver) == CommandApply(entry, receiver)

\* ----------------------------------------------------------------- Signal
SigUndo(b) == [sig |-> "Undo", val |-> b]
SigRedo(b) == [sig |-> "Redo", val |-> b]
SigSaved(b) == [sig |-> "Saved", val |-> b]
SigBranch(old, new) == [sig |-> "Branch", old |-> old, new |-> new]

\* ----------------------------------------------------------------- Record
\* `let value = ...;` followed by the rest of the function body.
With(value, Body(_)) == Body(value)

\* The record's `slot` field holds the signals the connected slot received
\* during the call in progress, in order.
RecordNew ==
    [commands |-> <<>>, receiver |-> <<>>, current |-> 0,
     limit |-> NoLimit, saved |-> Some(0), slot |-> <<>>]

Emit(r, cond, signal) == IF cond THEN [r EXCEPT !.slot = Append(@, signal)] ELSE r

CanUndo(r) == r.current > 0
CanRedo(r) == r.current < Len(r.commands)
IsSaved(r) == r.saved = Some(r.current)

\* Record::__apply after the command's apply succeeded: split off the tail,
\* drop a saved position that was on it, push the entry, and evict the front
\* entry if the limit was reached.
Push(r, entry, receiver) ==
    LET current == r.current
        kept == SubSeq(r.commands, 1, current)
        saved == IF IsSome(r.saved) /\ r.saved[1] <= current THEN r.saved ELSE None
    IN IF r.limit = current
       THEN [r EXCEPT !.receiver = receiver,
                      !.commands = Tail(kept) \o <<entry>>,
                      !.saved = IF IsSome(saved) /\ saved[1] >= 1
                                THEN Some(saved[1] - 1) ELSE None]
       ELSE [r EXCEPT !.receiver = receiver,
                      !.commands = kept \o <<entry>>,
                      !.current = current + 1,
                      !.saved = saved]

\* Record::__apply(entry) -> Result<(merged, detached tail)>.
Record__apply(r, entry) ==
    With(CommandApply(entry, r.receiver), LAMBDA a :
      IF ~a.ok
      THEN [ok |-> FALSE, r |-> r, merged |-> FALSE, commands |-> <<>>]
      ELSE [ok |-> TRUE,
            r |-> Emit(Emit(Emit(Push(r, a.entry, a.receiver),
                                 CanRedo(r), SigRedo(FALSE)),
                            ~CanUndo(r), SigUndo(TRUE)),
                       IsSaved(r), SigSaved(FALSE)),
            merged |-> FALSE,
            commands |-> SubSeq(r.commands, r.current + 1, Len(r.commands))])

\* Record::apply: __apply whose detached tail is dropped.
RecordApply(r, entry) ==
    With(Record__apply(r, entry), LAMBDA a :
      [res |-> IF a.ok THEN "Ok" ELSE "Err", r |-> a.r])

\* commands[current - 1].undo(&mut receiver), then current -= 1.
UndoStep(r) ==
    With(CommandUndo(r.commands[r.current], r.receiver), LAMBDA u :
      IF ~u.ok THEN [ok |-> FALSE, r |-> r]
      ELSE [ok |-> TRUE,
            r |-> [r EXCEPT !.commands[r.current] = u.entry,
                            !.receiver = u.receiver,
                            !.current = r.current - 1]])

\* commands[current].redo(&mut receiver), then current += 1.
RedoStep(r) ==
    With(CommandRedo(r.commands[r.current + 1], r.receiver), LAMBDA u :
      IF ~u.ok THEN [ok |-> FALSE, r |-> r]
      ELSE [ok |-> TRUE,
            r |-> [r EXCEPT !.commands[r.current + 1] = u.entry,
                            !.receiver = u.receiver,
                            !.current = r.current + 1]])

\* Record::undo -> None | Some(Ok) | Some(Err).
RecordUndo(r) ==
    IF ~CanUndo(r) THEN [res |-> "None", r |-> r]
    ELSE With(UndoStep(r), LAMBDA u :
      IF ~u.ok THEN [res |-> "Err", r |-> r]
      ELSE [res |-> "Ok",
            r |-> Emit(Emit(Emit(u.r,
                                 r.current = Len(r.commands), SigRedo(TRUE)),
                            r.current = 1, SigUndo(FALSE)),
                       IsSaved(r) # IsSaved(u.r), SigSaved(IsSaved(u.r)))])

\* Record::redo -> None | Some(Ok) | Some(Err).
RecordRedo(r) ==
    IF ~CanRedo(r) THEN [res |-> "None", r |-> r]
    ELSE With(RedoStep(r), LAMBDA u :
      IF ~u.ok THEN [res |-> "Err", r |-> r]
      ELSE [res |-> "Ok",
            r |-> Emit(Emit(Emit(u.r,
                                 r.current = Len(r.commands) - 1, SigRedo(FALSE)),
                            r.current = 0, SigUndo(TRUE)),
                       IsSaved(r) # IsSaved(u.r), SigSaved(IsSaved(u.r)))])

\* The loop of Record::go_to: undo or redo until `current` is reached, or
\* stop at the first command error.
RECURSIVE Walk(_, _)
Walk(r, current) ==
    IF r.current = current THEN [ok |-> TRUE, r |-> r]
    ELSE With(IF current > r.current THEN RedoStep(r) ELSE UndoStep(r), LAMBDA s :
           IF ~s.ok THEN [ok |-> FALSE, r |-> s.r] ELSE Walk(s.r, current))

\* Record::go_to(current) -> None | Some(Ok) | Some(Err).
RecordGoTo(r, current) ==
    IF current > Len(r.commands) THEN [res |-> "None", r |-> r]
    ELSE With(Walk(r, current), LAMBDA w :
      IF ~w.ok THEN [res |-> "Err", r |-> w.r]
      ELSE [res |-> "Ok",
            r |-> Emit(Emit(Emit(w.r,
                                 CanUndo(r) # CanUndo(w.r), SigUndo(CanUndo(w.r))),
                            CanRedo(r) # CanRedo(w.r), SigRedo(CanRedo(w.r))),
                       IsSaved(r) # IsSaved(w.r), SigSaved(IsSaved(w.r)))])

\* Record::set_saved(saved).
RecordSetSaved(r, saved) ==
    IF saved
    THEN Emit([r EXCEPT !.saved = Some(r.current)], ~IsSaved(r), SigSaved(TRUE))
    ELSE Emit([r EXCEPT !.saved = None], IsSaved(r), SigSaved(FALSE))

\* Record::set_limit(limit) -> the limit in force afterwards.  Entries are
\* evicted from the front until the length is `limit`, but none at or after
\* the cursor: then the limit becomes the length that is left.
RecordSetLimit(r, limit) ==
    IF limit >= Len(r.commands) THEN [r EXCEPT !.limit = limit]
    ELSE LET len == Len(r.commands)
             begin == IF r.current < len - limit THEN r.current ELSE len - limit
         IN With([r EXCEPT !.commands = SubSeq(@, begin + 1, len),
                           !.current = @ - begin,
                           !.limit = len - begin,
                           !.saved = IF IsSome(@) /\ @[1] >= begin
                                     THEN Some(@[1] - begin) ELSE None],
                 LAMBDA s :
                   Emit(Emit(s, CanUndo(r) # CanUndo(s), SigUndo(CanUndo(s))),
                        IsSaved(r) # IsSaved(s), SigSaved(IsSaved(s))))

\* Record::clear: the entries go without being undone, the cursor is 0,
\* and a record that was saved is saved at 0.
RecordClear(r) ==
    Emit(Emit([r EXCEPT !.commands = <<>>,
                        !.current = 0,
                        !.saved = IF IsSaved(r) THEN Some(0) ELSE None],
              CanUndo(r), SigUndo(FALSE)),
         CanRedo(r), SigRedo(FALSE))

\* Record::revert: go_to(saved) if there is a saved position.
RecordRevert(r) ==
    IF IsSome(r.saved) THEN RecordGoTo(r, r.saved[1]) ELSE [res |-> "None", r |-> r]

\* ---------------------------------------------------------------- History
Branch(parent, commands) == [parent |-> parent, commands |-> commands]

\* BTreeMap::insert and BTreeMap::remove on the branch registry.
Insert(branches, id, branch) ==
    [k \in DOMAIN branches \cup {id} |-> IF k = id THEN branch ELSE branches[k]]
Remove(branches, id) == [k \in DOMAIN branches \ {id} |-> branches[k]]

\* History::new / History::from(record).
HistoryFrom(record) ==
    [root |-> 0, next |-> 1, saved |-> None, record |-> record,
     branches |-> [k \in {} |-> Branch(At(0, 0), <<>>)]]

\* A set_root that re-parents every child of the old root.
set_root_all(h, root, current) ==
    [h EXCEPT
       !.root = root,
       !.branches = [k \in DOMAIN h.branches |->
                       IF h.branches[k].parent.branch = h.root
                       THEN [h.branches[k] EXCEPT !.parent.branch = root]
                       ELSE h.branches[k]]]

\* History::set_root(root, current): the children of the old root at or
\* below `current` follow the new root.
set_root(h, root, current) ==
    [h EXCEPT
       !.root = root,
       !.branches = [k \in DOMAIN h.branches |->
                       IF h.branches[k].parent.branch = h.root
                          /\ h.branches[k].parent.current <= current
                       THEN [h.branches[k] EXCEPT !.parent.branch = root]
                       ELSE h.branches[k]]]

\* History::swap_saved(old, new, current).
swap_saved(h, old, new, current) ==
    IF IsSome(h.saved) /\ h.saved[1].branch = new /\ h.saved[1].current <= current
    THEN [h EXCEPT !.saved = None,
                   !.record = Emit([h.record EXCEPT !.saved = Some(h.saved[1].current)],
                                   TRUE, SigSaved(TRUE))]
    ELSE IF IsSome(h.record.saved)
    THEN [h EXCEPT !.saved = Some(At(old, h.record.saved[1])),
                   !.record = Emit([h.record EXCEPT !.saved = None],
                                   TRUE, SigSaved(FALSE))]
    ELSE h

\* One turn of the loop of History::rm_child: remove the dead branch
\* `parent` and forget a saved marker held in it.
RemoveBranch(h, parent) ==
    [h EXCEPT !.branches = Remove(@, parent),
              !.saved = IF IsSome(@) /\ @[1].branch = parent THEN None ELSE @]

\* The loop of History::rm_child: remove a dead branch and queue its
\* children, until none is left.
RECURSIVE RemoveDead(_, _)
RemoveDead(h, dead) ==
    IF dead = {} THEN h
    ELSE With(CHOOSE id \in dead : \A other \in dead : id >= other, LAMBDA parent :
           RemoveDead(RemoveBranch(h, parent),
                      (dead \ {parent})
                        \cup {id \in DOMAIN h.branches \ {parent} :
                                h.branches[id].parent.branch = parent}))

\* An rm_child that removes the children of the node and not their
\* descendants.
rm_child_only(h, branch, current) ==
    [h EXCEPT
       !.branches = [k \in {id \in DOMAIN h.branches :
                              h.branches[id].parent # At(branch, current)} |-> h.branches[k]],
       !.saved = IF IsSome(@) /\ @[1].branch \in DOMAIN h.branches
                     /\ h.branches[@[1].branch].parent = At(branch, current)
                 THEN None ELSE @]

\* History::rm_child(branch, current).
rm_child(h, branch, current) ==
    RemoveDead(h, {id \in DOMAIN h.branches :
                     h.branches[id].parent = At(branch, current)})

\* The parent shift after eviction: parent.current -= diff for the children
\* of the root.
ShiftParents(h, root, diff) ==
    [h EXCEPT !.branches =
       [k \in DOMAIN h.branches |->
          IF h.branches[k].parent.branch = root
          THEN [h.branches[k] EXCEPT !.parent.current = @ - diff]
          ELSE h.branches[k]]]

\* The match on (record.saved, saved, self.saved) after a new branch was
\* stored, in History::apply and again in History::go_to.  `panic` is the
\* unreachable!() arm.
SavedMatch(h, saved, old, new, current) ==
    LET rs == IsSome(h.record.saved)
        fs == IsSome(saved)
        hs == IsSome(h.saved)
    IN IF (rs /\ ~fs /\ ~hs) \/ (~rs /\ ~fs /\ hs)
       THEN [panic |-> FALSE, h |-> swap_saved(h, new, old, current)]
       ELSE IF ~rs /\ fs /\ ~hs
       THEN [panic |-> FALSE,
             h |-> swap_saved([h EXCEPT !.record.saved = saved], old, new, current)]
       ELSE IF ~rs /\ ~fs /\ ~hs
       THEN [panic |-> FALSE, h |-> h]
       ELSE [panic |-> TRUE, h |-> h]

\* No saved position is looked for on the redo tail.
SavedAheadNever(r) == None

\* `self.record.saved.filter(|&saved| saved > current)`.
SavedAhead(r) ==
    IF IsSome(r.saved) /\ r.saved[1] > r.current THEN r.saved ELSE None

\* History::apply, "Check if the limit has been reached": the record
\* evicted its front entry, so the children of the evicted node die and the
\* other children of the root move down by one.
LimitReached(h) == ShiftParents(rm_child(h, h.root, 0), h.root, 1)

\* A new branch that takes the id `next` and leaves the counter where it is.
NewBranchSameNext(h, saved, current, commands) ==
    With(SavedMatch(set_root([h EXCEPT
                                !.branches = Insert(@, h.root,
                                                    Branch(At(h.next, current), commands))],
                             h.next, current),
                    saved, h.root, h.next, current),
         LAMBDA m :
           IF m.panic THEN [res |-> "Unreachable", h |-> m.h]
           ELSE [res |-> "Ok",
                 h |-> [m.h EXCEPT !.record = Emit(@, TRUE, SigBranch(h.root, h.next))]])

\* History::apply, "Handle new branch": the detached tail becomes a branch
\* under the old root's id, and a new id becomes the root.
NewBranch(h, saved, current, commands) ==
    With(SavedMatch(set_root([h EXCEPT
                                !.next = h.next + 1,
                                !.branches = Insert(@, h.root,
                                                    Branch(At(h.next, current), commands))],
                             h.next, current),
                    saved, h.root, h.next, current),
         LAMBDA m :
           IF m.panic THEN [res |-> "Unreachable", h |-> m.h]
           ELSE [res |-> "Ok",
                 h |-> [m.h EXCEPT !.record = Emit(@, TRUE, SigBranch(h.root, h.next))]])

\* History::apply(command) -> Ok | Err; "Unreachable" is the panic of the
\* unreachable!() arm of the saved match.
HistoryApply(h, command) ==
    With(Record__apply(h.record, command), LAMBDA a :
      IF ~a.ok THEN [res |-> "Err", h |-> h]
      ELSE With(IF ~a.merged /\ h.record.current = a.r.current
                THEN LimitReached([h EXCEPT !.record = a.r])
                ELSE [h EXCEPT !.record = a.r],
                LAMBDA h1 :
                  IF a.commands = <<>> THEN [res |-> "Ok", h |-> h1]
                  ELSE NewBranch(h1, SavedAhead(h.record), h.record.current, a.commands)))
\* A set_limit that removes only the children of the first evicted entry.
RemoveEvictedFirst(h, root, current, diff) ==
    IF diff = 0 THEN h ELSE rm_child(h, root, 0)

\* The first loop of History::set_limit: rm_child(root, current) for
\* current in 0..diff.
RECURSIVE RemoveEvicted(_, _, _, _)
RemoveEvicted(h, root, current, diff) ==
    IF current >= diff THEN h
    ELSE RemoveEvicted(rm_child(h, root, current), root, current + 1, diff)

\* A set_limit that stores the limit and evicts nothing.
HistorySetLimitOnly(h, limit) == [h EXCEPT !.record.limit = limit]

\* A set_limit that cuts the record down to the limit asked for, whatever
\* the cursor.
HistorySetLimitExact(h, limit) ==
    With(Len(h.record.commands), LAMBDA len :
      IF limit >= len THEN [h EXCEPT !.record.limit = limit]
      ELSE [h EXCEPT !.record.limit = limit,
                     !.record.commands = SubSeq(@, len - limit + 1, len),
                     !.record.current = IF @ > len - limit THEN @ - (len - limit) ELSE 0])

\* History::set_limit(limit) -> the limit in force afterwards.
HistorySetLimit(h, limit) ==
    With(RecordSetLimit(h.record, limit), LAMBDA r :
      With(Len(h.record.commands) - Len(r.commands), LAMBDA diff :
        ShiftParents(RemoveEvicted([h EXCEPT !.record = r], h.root, 0, diff),
                     h.root, diff)))

\* History::clear.
HistoryClear(h) ==
    [h EXCEPT !.root = 0,
              !.next = 1,
              !.saved = None,
              !.record = Emit(RecordClear(@), TRUE, SigBranch(h.root, 0)),
              !.branches = [k \in {} |-> Branch(At(0, 0), <<>>)]]

\* An undo that, at position 0, takes back the last evicted command.
HistoryUndoEvicted(h) ==
    IF h.record.current = 0 /\ h.record.receiver # <<>>
    THEN [res |-> "Ok",
          h |-> [h EXCEPT !.record.receiver = SubSeq(@, 1, Len(@) - 1)]]
    ELSE With(RecordUndo(h.record), LAMBDA u : [res |-> u.res, h |-> [h EXCEPT !.record = u.r]])

\* History::undo.
HistoryUndo(h) ==
    With(RecordUndo(h.record), LAMBDA u : [res |-> u.res, h |-> [h EXCEPT !.record = u.r]])

\* A redo that reports success without running the command again.
HistoryRedoIdle(h) == [res |-> IF CanRedo(h.record) THEN "Ok" ELSE "None", h |-> h]

\* History::redo.
HistoryRedo(h) ==
    With(RecordRedo(h.record), LAMBDA u : [res |-> u.res, h |-> [h EXCEPT !.record = u.r]])

\* A set_saved that leaves the marker of another branch in place.
HistorySetSavedRecordOnly(h, saved) == [h EXCEPT !.record = RecordSetSaved(@, saved)]

\* A set_saved that forgets the marker of another branch only when it
\* sets a new one.
HistorySetSavedKeepsOther(h, saved) ==
    [h EXCEPT !.record = RecordSetSaved(@, saved), !.saved = IF saved THEN None ELSE @]

\* History::set_saved(saved).
HistorySetSaved(h, saved) ==
    [h EXCEPT !.record = RecordSetSaved(@, saved), !.saved = None]

\* The while loop of mk_path: follow parent links up to the root, taking
\* each branch out of the registry; "Panic" is the unwrap on a missing id.
RECURSIVE PathUp(_, _, _)
PathUp(h, i, path) ==
    IF i = h.root THEN [res |-> "Ok", h |-> h, path |-> path]
    ELSE IF i \notin DOMAIN h.branches THEN [res |-> "Panic", h |-> h, path |-> path]
    ELSE PathUp([h EXCEPT !.branches = Remove(@, i)],
                h.branches[i].parent.branch,
                <<[id |-> i, branch |-> h.branches[i]]>> \o path)

\* History::mk_path(to): the hops from the root to `to`, root side first.
mk_path(h, to) ==
    IF to \notin DOMAIN h.branches THEN [res |-> "None", h |-> h, path |-> <<>>]
    ELSE PathUp([h EXCEPT !.branches = Remove(@, to)],
                h.branches[to].parent.branch,
                <<[id |-> to, branch |-> h.branches[to]]>>)

\* A go_to that drops the displaced commands instead of keeping them as a
\* branch.
DisplaceDropped(h, saved, old, new, current, commands) ==
    SavedMatch(set_root(h, new, current), saved, old, new, current)

\* History::go_to, "Handle new branch": the commands displaced by an entry
\* of the branch `new` are stored under the current root's id.
Displace(h, saved, old, new, current, commands) ==
    SavedMatch(set_root([h EXCEPT !.branches =
                           Insert(@, h.root, Branch(At(new, current), commands))],
                        new, current),
               saved, old, new, current)

\* The inner loop of History::go_to: apply the entries of the branch `new`.
RECURSIVE ApplyEntries(_, _, _, _)
ApplyEntries(h, new, old, entries) ==
    IF entries = <<>> THEN [res |-> "Ok", h |-> h]
    ELSE With(Record__apply(h.record, Head(entries)), LAMBDA a :
      IF ~a.ok THEN [res |-> "Err", h |-> h]
      ELSE With(IF a.commands = <<>>
                THEN [panic |-> FALSE, h |-> [h EXCEPT !.record = a.r]]
                ELSE Displace([h EXCEPT !.record = a.r], SavedAhead(h.record),
                              old, new, h.record.current, a.commands),
                LAMBDA m :
                  IF m.panic THEN [res |-> "Unreachable", h |-> m.h]
                  ELSE ApplyEntries(m.h, new, old, Tail(entries))))

\* The outer loop of History::go_to over the path: walk to the parent
\* position of the next branch (None there is the unwrap's panic), then
\* apply its entries.
RECURSIVE WalkPath(_, _)
WalkPath(h, path) ==
    IF path = <<>> THEN [res |-> "Ok", h |-> h]
    ELSE With(RecordGoTo(h.record, Head(path).branch.parent.current), LAMBDA g :
      IF g.res = "None" THEN [res |-> "Panic", h |-> h]
      ELSE IF g.res = "Err" THEN [res |-> "Err", h |-> [h EXCEPT !.record = g.r]]
      ELSE With(ApplyEntries([h EXCEPT !.record = g.r], Head(path).id, h.root,
                             Head(path).branch.commands),
                LAMBDA e : IF e.res # "Ok" THEN e ELSE WalkPath(e.h, Tail(path))))

\* The end of History::go_to: walk to `current` on the destination branch
\* and signal the change of branch.
Arrive(h, root, current) ==
    With(RecordGoTo(h.record, current), LAMBDA g :
      IF g.res # "Ok" THEN [res |-> g.res, h |-> [h EXCEPT !.record = g.r]]
      ELSE [res |-> "Ok",
            h |-> [h EXCEPT !.record = Emit(g.r, TRUE, SigBranch(root, h.root))]])

\* History::go_to(branch, current) -> None | Some(Ok) | Some(Err).
HistoryGoTo(h, branch, current) ==
    IF h.root = branch
    THEN With(RecordGoTo(h.record, current), LAMBDA g :
           [res |-> g.res, h |-> [h EXCEPT !.record = g.r]])
    ELSE With(mk_path(h, branch), LAMBDA p :
      IF p.res # "Ok" THEN [res |-> p.res, h |-> p.h]
      ELSE With(WalkPath(p.h, p.path), LAMBDA w :
             IF w.res # "Ok" THEN w ELSE Arrive(w.h, h.root, current)))

\* A revert that knows only the marker of the active branch.
HistoryRevertActiveOnly(h) ==
    IF IsSome(h.record.saved)
    THEN With(RecordRevert(h.record), LAMBDA g :
           [res |-> g.res, h |-> [h EXCEPT !.record = g.r]])
    ELSE [res |-> "None", h |-> h]

\* History::revert -> None | Some(Ok) | Some(Err).
HistoryRevert(h) ==
    IF IsSome(h.record.saved)
    THEN With(RecordRevert(h.record), LAMBDA g :
           [res |-> g.res, h |-> [h EXCEPT !.record = g.r]])
    ELSE IF IsSome(h.saved)
    THEN HistoryGoTo(h, h.saved[1].branch, h.saved[1].current)
    ELSE [res |-> "None", h |-> h]

\* ------------------------------------------------------------- Checkpoint
\* enum Action { Apply(VecDeque<Entry>), Undo, Redo, GoTo(usize, usize) }
ActionApply(commands) ==
    [act |-> "Apply", branch |-> 0, current |-> 0, commands |-> commands]
ActionUndo == [act |-> "Undo", branch |-> 0, current |-> 0, commands |-> <<>>]
ActionRedo == [act |-> "Redo", branch |-> 0, current |-> 0, commands |-> <<>>]
ActionGoTo(branch, current) ==
    [act |-> "GoTo", branch |-> branch, current |-> current, commands |-> <<>>]

\* A checkpoint that pushes the action before it looks at the result.
PushedAlways(res, h, stack, action) ==
    [res |-> res, h |-> h, stack |-> Append(stack, action)]

\* What a call through a checkpoint returns: the result, the timeline, and
\* the checkpoint's stack.
Pushed(res, h, stack, action) ==
    [res |-> res, h |-> h, stack |-> IF res = "Ok" THEN Append(stack, action) ELSE stack]

\* Checkpoint<Record>::apply.
CheckpointRecordApply(h, stack, command) ==
    With(Record__apply(h.record, command), LAMBDA a :
      Pushed(IF a.ok THEN "Ok" ELSE "Err", [h EXCEPT !.record = a.r], stack,
             ActionApply(a.commands)))

\* Checkpoint<Record>::undo.
CheckpointRecordUndo(h, stack) ==
    With(RecordUndo(h.record), LAMBDA u :
      Pushed(u.res, [h EXCEPT !.record = u.r], stack, ActionUndo))

\* Checkpoint<Record>::redo.
CheckpointRecordRedo(h, stack) ==
    With(RecordRedo(h.record), LAMBDA u :
      Pushed(u.res, [h EXCEPT !.record = u.r], stack, ActionRedo))

\* A checkpoint that records the position a go_to arrives at.
CheckpointRecordGoToLate(h, stack, current) ==
    With(RecordGoTo(h.record, current), LAMBDA g :
      Pushed(g.res, [h EXCEPT !.record = g.r], stack, ActionGoTo(0, g.r.current)))

\* Checkpoint<Record>::go_to.
CheckpointRecordGoTo(h, stack, current) ==
    With(RecordGoTo(h.record, current), LAMBDA g :
      Pushed(g.res, [h EXCEPT !.record = g.r], stack, ActionGoTo(0, h.record.current)))

\* A cancel that truncates and forgets to put the detached commands back.
RestoreTruncated(r, v) ==
    [r EXCEPT !.commands = IF r.current < Len(@) THEN SubSeq(@, 1, r.current) ELSE @]

\* `self.inner.commands.truncate(current); self.inner.commands.append(&mut v)`
Restore(r, v) ==
    [r EXCEPT !.commands =
       (IF r.current < Len(@) THEN SubSeq(@, 1, r.current) ELSE @) \o v]

\* One arm of the match in Checkpoint<Record>::cancel; only Some(Err) of
\* the inverse call is an error.
CancelRecordAction(r, action) ==
    IF action.act = "Apply"
    THEN With(RecordUndo(r), LAMBDA u :
           IF u.res = "Err" THEN [res |-> "Err", r |-> u.r]
           ELSE [res |-> "Ok", r |-> Restore(u.r, action.commands)])
    ELSE With(IF action.act = "Undo" THEN RecordRedo(r)
              ELSE IF action.act = "Redo" THEN RecordUndo(r)
              ELSE RecordGoTo(r, action.current),
              LAMBDA u : [res |-> IF u.res = "Err" THEN "Err" ELSE "Ok", r |-> u.r])

\* A cancel that takes back the last action only.
CheckpointRecordCancelLast(r, stack) ==
    IF stack = <<>> THEN [res |-> "Ok", r |-> r]
    ELSE CancelRecordAction(r, stack[Len(stack)])

\* A cancel that passes over an inverse operation that failed and goes on
\* with the actions recorded before it.
RECURSIVE CheckpointRecordCancelAll(_, _)
CheckpointRecordCancelAll(r, stack) ==
    IF stack = <<>> THEN [res |-> "Ok", r |-> r]
    ELSE CheckpointRecordCancelAll(CancelRecordAction(r, stack[Len(stack)]).r,
                                   SubSeq(stack, 1, Len(stack) - 1))

\* Checkpoint<Record>::cancel: the stack from its last action to its first.
RECURSIVE CheckpointRecordCancel(_, _)
CheckpointRecordCancel(r, stack) ==
    IF stack = <<>> THEN [res |-> "Ok", r |-> r]
    ELSE With(CancelRecordAction(r, stack[Len(stack)]), LAMBDA c :
           IF c.res # "Ok" THEN c
           ELSE CheckpointRecordCancel(c.r, SubSeq(stack, 1, Len(stack) - 1)))

\* An apply that records the position it arrives at, not the one it left.
CheckpointHistoryApplyLate(h, stack, command) ==
    With(HistoryApply(h, command), LAMBDA a :
      Pushed(a.res, a.h, stack, ActionGoTo(a.h.root, a.h.record.current)))

\* Checkpoint<History>::apply.
CheckpointHistoryApply(h, stack, command) ==
    With(HistoryApply(h, command), LAMBDA a :
      Pushed(a.res, a.h, stack, ActionGoTo(h.root, h.record.current)))

\* Checkpoint<History>::undo.
CheckpointHistoryUndo(h, stack) ==
    With(HistoryUndo(h), LAMBDA u : Pushed(u.res, u.h, stack, ActionUndo))

\* Checkpoint<History>::redo.
CheckpointHistoryRedo(h, stack) ==
    With(HistoryRedo(h), LAMBDA u : Pushed(u.res, u.h, stack, ActionRedo))

\* Checkpoint<History>::go_to.
CheckpointHistoryGoTo(h, stack, branch, current) ==
    With(HistoryGoTo(h, branch, current), LAMBDA g :
      Pushed(g.res, g.h, stack, ActionGoTo(h.root, h.record.current)))

\* One arm of the match in Checkpoint<History>::cancel; Action::Apply is
\* its unreachable!() arm.
CancelHistoryAction(h, action) ==
    IF action.act = "Apply" THEN [res |-> "Panic", h |-> h]
    ELSE With(IF action.act = "Undo" THEN HistoryRedo(h)
              ELSE IF action.act = "Redo" THEN HistoryUndo(h)
              ELSE HistoryGoTo(h, action.branch, action.current),
              LAMBDA u : [res |-> IF u.res \in {"Err", "Panic", "Unreachable"}
                                  THEN u.res ELSE "Ok",
                          h |-> u.h])

\* Checkpoint<History>::cancel.
RECURSIVE CheckpointHistoryCancel(_, _)
CheckpointHistoryCancel(h, stack) ==
    IF stack = <<>> THEN [res |-> "Ok", h |-> h]
    ELSE With(CancelHistoryAction(h, stack[Len(stack)]), LAMBDA c :
           IF c.res # "Ok" THEN c
           ELSE CheckpointHistoryCancel(c.h, SubSeq(stack, 1, Len(stack) - 1)))

\* ------------------------------------------------------------------ Queue
\* enum Action { Apply(C), Undo, Redo, GoTo(usize, usize) }
QueuedApply(command) ==
    [act |-> "Apply", branch |-> 0, current |-> 0, commands |-> <<command>>]
QueuedUndo == [act |-> "Undo", branch |-> 0, current |-> 0, commands |-> <<>>]
QueuedRedo == [act |-> "Redo", branch |-> 0, current |-> 0, commands |-> <<>>]
QueuedGoTo(branch, current) ==
    [act |-> "GoTo", branch |-> branch, current |-> current, commands |-> <<>>]

\* What a call on a queue leaves: the timeline and the queue's actions.
Queued(h, actions) == [h |-> h, actions |-> actions]

\* An apply that runs the command at once and queues it as well.
QueueApplyEager(h, actions, command) ==
    With(Record__apply(h.record, command), LAMBDA a :
      Queued([h EXCEPT !.record = a.r], Append(actions, QueuedApply(command))))

\* Queue::apply.
QueueApply(h, actions, command) == Queued(h, Append(actions, QueuedApply(command)))

\* Queue::undo.
QueueUndo(h, actions) == Queued(h, Append(actions, QueuedUndo))

\* Queue::redo.
QueueRedo(h, actions) == Queued(h, Append(actions, QueuedRedo))

\* Queue<Record>::go_to(current).
QueueRecordGoTo(h, actions, current) == Queued(h, Append(actions, QueuedGoTo(0, current)))

\* Queue<History>::go_to(branch, current).
QueueHistoryGoTo(h, actions, branch, current) ==
    Queued(h, Append(actions, QueuedGoTo(branch, current)))

\* Queue::extend: one apply per command.
RECURSIVE QueueExtend(_, _, _)
QueueExtend(h, actions, commands) ==
    IF commands = <<>> THEN Queued(h, actions)
    ELSE With(QueueApply(h, actions, Head(commands)), LAMBDA q :
           QueueExtend(q.h, q.actions, Tail(commands)))

\* A call on the record of the timeline `h`.
OnRecord(h, x) == [res |-> x.res, h |-> [h EXCEPT !.record = x.r]]

\* A commit that stops at a call that returned None.
CommittedOrStops(c) == [res |-> IF c.res = "None" THEN "Err" ELSE c.res, h |-> c.h]

\* What commit makes of a call's result: `?` on apply, and
\* `if let Some(Err(error))` on the others, so that None goes on.
Committed(c) == [res |-> IF c.res = "None" THEN "Ok" ELSE c.res, h |-> c.h]

\* One arm of the match in Queue<Record>::commit.
CommitRecordAction(h, action) ==
    Committed(IF action.act = "Apply" THEN OnRecord(h, RecordApply(h.record, action.commands[1]))
              ELSE IF action.act = "Undo" THEN OnRecord(h, RecordUndo(h.record))
              ELSE IF action.act = "Redo" THEN OnRecord(h, RecordRedo(h.record))
              ELSE OnRecord(h, RecordGoTo(h.record, action.current)))

\* A commit that hands the actions on instead of running them.
QueueRecordCommitLater(h, actions) == [res |-> "Ok", h |-> h]

\* Queue<Record>::commit: the actions in the order they were queued, up to
\* the first error.
RECURSIVE QueueRecordCommit(_, _)
QueueRecordCommit(h, actions) ==
    IF actions = <<>> THEN [res |-> "Ok", h |-> h]
    ELSE With(CommitRecordAction(h, Head(actions)), LAMBDA c :
           IF c.res # "Ok" THEN c ELSE QueueRecordCommit(c.h, Tail(actions)))

\* One arm of the match in Queue<History>::commit.
CommitHistoryAction(h, action) ==
    Committed(IF action.act = "Apply" THEN HistoryApply(h, action.commands[1])
              ELSE IF action.act = "Undo" THEN HistoryUndo(h)
              ELSE IF action.act = "Redo" THEN HistoryRedo(h)
              ELSE HistoryGoTo(h, action.branch, action.current))

\* A commit that runs the actions from the last queued to the first.
RECURSIVE QueueHistoryCommitReversed(_, _)
QueueHistoryCommitReversed(h, actions) ==
    IF actions = <<>> THEN [res |-> "Ok", h |-> h]
    ELSE With(CommitHistoryAction(h, actions[Len(actions)]), LAMBDA c :
           IF c.res # "Ok" THEN c
           ELSE QueueHistoryCommitReversed(c.h, SubSeq(actions, 1, Len(actions) - 1)))

\* A commit that goes on after an error and reports it at the end.
RECURSIVE QueueHistoryCommitOn(_, _)
QueueHistoryCommitOn(h, actions) ==
    IF actions = <<>> THEN [res |-> "Ok", h |-> h]
    ELSE With(CommitHistoryAction(h, Head(actions)), LAMBDA c :
           With(QueueHistoryCommitOn(c.h, Tail(actions)), LAMBDA d :
             [res |-> IF c.res # "Ok" THEN c.res ELSE d.res, h |-> d.h]))

\* Queue<History>::commit.
RECURSIVE QueueHistoryCommit(_, _)
QueueHistoryCommit(h, actions) ==
    IF actions = <<>> THEN [res |-> "Ok", h |-> h]
    ELSE With(CommitHistoryAction(h, Head(actions)), LAMBDA c :
           IF c.res # "Ok" THEN c ELSE QueueHistoryCommit(c.h, Tail(actions)))

\* A cancel that runs the queued actions before it drops them.
QueueCancelCommits(h, actions) == QueueRecordCommit(h, actions)

\* Queue::cancel: `pub fn cancel(self) {}`.
QueueCancel(h, actions) == [res |-> "Ok", h |-> h]

\* ------------------------------------------------------------------ state
VARIABLES
    timeline,   \* "Record" or "History": what the client constructed
    history,    \* the History; a Record timeline uses only history.record
    wrappers,   \* the open checkpoints and queues, innermost last
    closed,     \* the wrapper the last call consumed, how, and the result
    made,       \* how many commands the client has constructed
    mark,       \* a coordinate the client read: branch(), current(), receiver
    run         \* a client counting its applies, undos and redos

vars == <<timeline, history, wrappers, closed, made, mark, run>>

\* The timeline between calls: nothing delivered to the slot.
Fresh(h) == [h EXCEPT !.record.slot = <<>>]

RunOff == [phase |-> "off", start |-> <<>>, after |-> <<>>, n |-> 0, k |-> 0]

\* The client's count of a run `apply^n; undo^n; redo^n`: the receiver it
\* saw when it began and after its last apply, and how far it has undone
\* or redone.  Any other successful call ends the run.
RunStep(r, op, res, receiver) ==
    IF r.phase = "off" \/ res = "None" THEN r
    ELSE IF res # "Ok" THEN RunOff
    ELSE IF op = "apply" /\ r.phase = "apply"
    THEN [r EXCEPT !.n = @ + 1, !.after = receiver]
    ELSE IF op = "undo" /\ r.phase = "apply" /\ r.n > 0
    THEN [r EXCEPT !.phase = "undo", !.k = 1]
    ELSE IF op = "undo" /\ r.phase = "undo" /\ r.k < r.n
    THEN [r EXCEPT !.k = @ + 1]
    ELSE IF op = "redo" /\ r.phase = "undo" /\ r.k = r.n
    THEN [r EXCEPT !.phase = "redo", !.k = 1]
    ELSE IF op = "redo" /\ r.phase = "redo" /\ r.k < r.n
    THEN [r EXCEPT !.k = @ + 1]
    ELSE RunOff

InitTimeline(t) ==
    /\ timeline = t
    /\ history = HistoryFrom(RecordNew)
    /\ wrappers = <<>>
    /\ closed = None
    /\ made = 0
    /\ mark = None
    /\ run = RunOff

\* ------------------------------------------------- calls on the timeline
\* The timeline is borrowed while a wrapper is open.
Direct == wrappers = <<>>

\* The next command the client constructs.
MayMake == made < MaxCommands
MayWrap == made < MaxWrapped
NewAdd == Add(made + 1)
NewFailing == Failing(made + 1)
NewStuck == Stuck(made + 1)

\* Record::apply / History::apply.
TimelineApply(h, command) ==
    IF timeline = "Record"
    THEN With(RecordApply(h.record, command), LAMBDA a :
           [res |-> a.res, h |-> [h EXCEPT !.record = a.r]])
    ELSE HistoryApply(h, command)

\* Record::go_to(current) / History::go_to(branch, current).
TimelineGoTo(h, branch, current) ==
    IF timeline = "Record"
    THEN With(RecordGoTo(h.record, current), LAMBDA g :
           [res |-> g.res, h |-> [h EXCEPT !.record = g.r]])
    ELSE HistoryGoTo(h, branch, current)

\* The results of a call that does not return: a panic of an unwrap, or of
\* the unreachable!() arm of the saved match.
Aborts == {"Panic", "Unreachable"}

\* apply of a command the client has just constructed.
ApplyNew ==
    /\ Direct
    /\ With(TimelineApply(history, NewAdd), LAMBDA a :
         /\ a.res \notin Aborts
         /\ history' = Fresh(a.h)
         /\ run' = RunStep(run, "apply", a.res, a.h.record.receiver))
    /\ made' = made + 1
    /\ closed' = None
    /\ UNCHANGED <<timeline, wrappers, mark>>

Apply == MayMake /\ ApplyNew

Undo ==
    /\ Direct
    /\ With(HistoryUndo(history), LAMBDA u :
         /\ history' = Fresh(u.h)
         /\ run' = RunStep(run, "undo", u.res, u.h.record.receiver))
    /\ closed' = None
    /\ UNCHANGED <<timeline, wrappers, made, mark>>

Redo ==
    /\ Direct
    /\ With(HistoryRedo(history), LAMBDA u :
         /\ history' = Fresh(u.h)
         /\ run' = RunStep(run, "redo", u.res, u.h.record.receiver))
    /\ closed' = None
    /\ UNCHANGED <<timeline, wrappers, made, mark>>

GoTo(branch, current) ==
    /\ Direct
    /\ With(TimelineGoTo(history, branch, current), LAMBDA g :
         /\ g.res \notin Aborts
         /\ history' = Fresh(g.h))
    /\ run' = RunOff
    /\ closed' = None
    /\ UNCHANGED <<timeline, wrappers, made, mark>>

SetSaved(saved) ==
    /\ Direct
    /\ history' = Fresh(IF timeline = "Record"
                        THEN [history EXCEPT !.record = RecordSetSaved(@, saved)]
                        ELSE HistorySetSaved(history, saved))
    /\ run' = RunOff
    /\ closed' = None
    /\ UNCHANGED <<timeline, wrappers, made, mark>>

\* Record::set_limit / History::set_limit.
TimelineSetLimit(h, limit) ==
    IF timeline = "Record" THEN [h EXCEPT !.record = RecordSetLimit(@, limit)]
    ELSE HistorySetLimit(h, limit)

\* Record::clear / History::clear.
TimelineClear(h) ==
    IF timeline = "Record" THEN [h EXCEPT !.record = RecordClear(@)]
    ELSE HistoryClear(h)

\* Record::revert / History::revert.
TimelineRevert(h) ==
    IF timeline = "Record"
    THEN With(RecordRevert(h.record), LAMBDA g :
           [res |-> g.res, h |-> [h EXCEPT !.record = g.r]])
    ELSE HistoryRevert(h)

SetLimit(limit) ==
    /\ Direct
    /\ history' = Fresh(TimelineSetLimit(history, limit))
    /\ run' = RunOff
    /\ closed' = None
    /\ UNCHANGED <<timeline, wrappers, made, mark>>

Clear ==
    /\ Direct
    /\ history' = Fresh(TimelineClear(history))
    /\ run' = RunOff
    /\ closed' = None
    /\ UNCHANGED <<timeline, wrappers, made, mark>>

Revert ==
    /\ Direct
    /\ With(TimelineRevert(history), LAMBDA g :
         /\ g.res \notin Aborts
         /\ history' = Fresh(g.h))
    /\ run' = RunOff
    /\ closed' = None
    /\ UNCHANGED <<timeline, wrappers, made, mark>>

\* The client reads branch(), current() and the receiver and keeps them.
Observe ==
    /\ Direct
    /\ mark' = Some([branch |-> history.root, current |-> history.record.current,
                     receiver |-> history.record.receiver])
    /\ UNCHANGED <<timeline, history, wrappers, closed, made, run>>

\* The client calls set_saved(true) and keeps the coordinate and the target
\* it saved.
Save ==
    /\ Direct
    /\ history' = Fresh(IF timeline = "Record"
                        THEN [history EXCEPT !.record = RecordSetSaved(@, TRUE)]
                        ELSE HistorySetSaved(history, TRUE))
    /\ mark' = Some([branch |-> history.root, current |-> history.record.current,
                     receiver |-> history.record.receiver])
    /\ run' = RunOff
    /\ closed' = None
    /\ UNCHANGED <<timeline, wrappers, made>>

\* The client starts counting a run of applies.
Begin ==
    /\ Direct
    /\ run.phase = "off"
    /\ run' = [phase |-> "apply", start |-> history.record.receiver,
               after |-> history.record.receiver, n |-> 0, k |-> 0]
    /\ UNCHANGED <<timeline, history, wrappers, closed, made, mark>>

\* ------------------------------------------- calls through a checkpoint
\* Timeline::checkpoint(): a checkpoint over the timeline itself, also when
\* asked of an open wrapper (`self.inner.checkpoint()`), which stays
\* borrowed until the new one is consumed.  `created` keeps the timeline as
\* it was then; `escaped` tells that the timeline changed in a way the
\* wrapper did not record: through a wrapper opened from it that was not
\* cancelled, or in a call that did not return Ok.
Wrapper(kind) ==
    [kind |-> kind, actions |-> <<>>, created |-> history, escaped |-> FALSE]

Top == wrappers[Len(wrappers)]

MayRecord == Len(Top.actions) < MaxActions
Through(kind) == wrappers # <<>> /\ Top.kind = kind
Outer == SubSeq(wrappers, 1, Len(wrappers) - 1)

\* The open wrappers after a call through the innermost returned `c`.
Recorded(c) ==
    [wrappers EXCEPT ![Len(wrappers)] =
       [@ EXCEPT !.actions = c.stack,
                 !.escaped = @ \/ (c.res # "Ok" /\ Fresh(c.h) # history)]]

\* The open wrappers after the innermost was consumed.
Consumed(how, res) ==
    IF how = "cancel" /\ res = "Ok" /\ ~Top.escaped THEN Outer
    ELSE IF how = "commit" /\ Top.actions = <<>> /\ ~Top.escaped THEN Outer
    ELSE [i \in 1..(Len(wrappers) - 1) |-> [wrappers[i] EXCEPT !.escaped = TRUE]]

Closed(how, res) == Some([how |-> how, res |-> res, wrapper |-> Top])

OpenCheckpoint ==
    /\ Len(wrappers) < MaxDepth
    /\ wrappers' = Append(wrappers, Wrapper("Checkpoint"))
    /\ closed' = None
    /\ UNCHANGED <<timeline, history, made, mark, run>>

\* A call through the innermost checkpoint that returns `c`.
CheckpointCall(c) ==
    /\ history' = Fresh(c.h)
    /\ wrappers' = Recorded(c)
    /\ closed' = None

CpApply ==
    /\ Through("Checkpoint")
    /\ MayRecord
    /\ MayMake
    /\ CheckpointCall(IF timeline = "Record"
                      THEN CheckpointRecordApply(history, Top.actions, NewAdd)
                      ELSE CheckpointHistoryApply(history, Top.actions, NewAdd))
    /\ made' = made + 1
    /\ UNCHANGED <<timeline, mark, run>>

CpUndo ==
    /\ Through("Checkpoint")
    /\ MayRecord
    /\ CheckpointCall(IF timeline = "Record"
                      THEN CheckpointRecordUndo(history, Top.actions)
                      ELSE CheckpointHistoryUndo(history, Top.actions))
    /\ UNCHANGED <<timeline, made, mark, run>>

CpRedo ==
    /\ Through("Checkpoint")
    /\ MayRecord
    /\ CheckpointCall(IF timeline = "Record"
                      THEN CheckpointRecordRedo(history, Top.actions)
                      ELSE CheckpointHistoryRedo(history, Top.actions))
    /\ UNCHANGED <<timeline, made, mark, run>>

CpGoTo(branch, current) ==
    /\ Through("Checkpoint")
    /\ MayRecord
    /\ CheckpointCall(IF timeline = "Record"
                      THEN CheckpointRecordGoTo(history, Top.actions, current)
                      ELSE CheckpointHistoryGoTo(history, Top.actions, branch, current))
    /\ UNCHANGED <<timeline, made, mark, run>>

\* Checkpoint::cancel on the timeline it wraps.
CheckpointCancel(h, stack) ==
    IF timeline = "Record"
    THEN With(CheckpointRecordCancel(h.record, stack), LAMBDA c :
           [res |-> c.res, h |-> [h EXCEPT !.record = c.r]])
    ELSE CheckpointHistoryCancel(h, stack)

\* A commit that rolls the timeline back, as cancel does.
CheckpointCommitRollsBack(h, stack) == CheckpointCancel(h, stack)

\* Checkpoint::commit: `pub fn commit(self) {}`.
CheckpointCommit(h, stack) == [res |-> "Ok", h |-> h]

CpCancel ==
    /\ Through("Checkpoint")
    /\ With(CheckpointCancel(history, Top.actions), LAMBDA c :
         /\ history' = Fresh(c.h)
         /\ wrappers' = Consumed("cancel", c.res)
         /\ closed' = Closed("cancel", c.res))
    /\ UNCHANGED <<timeline, made, mark, run>>

CpCommit ==
    /\ Through("Checkpoint")
    /\ With(CheckpointCommit(history, Top.actions), LAMBDA c :
         /\ history' = Fresh(c.h)
         /\ wrappers' = Consumed("commit", c.res)
         /\ closed' = Closed("commit", c.res))
    /\ UNCHANGED <<timeline, made, mark, run>>

\* ------------------------------------------------ calls through a queue
OpenQueue ==
    /\ Len(wrappers) < MaxDepth
    /\ wrappers' = Append(wrappers, Wrapper("Queue"))
    /\ closed' = None
    /\ UNCHANGED <<timeline, history, made, mark, run>>

MayQueue(n) == Through("Queue") /\ Len(Top.actions) + n <= MaxQueue

\* A call on the innermost queue that leaves `q`.
QueueCall(q) ==
    /\ history' = Fresh(q.h)
    /\ wrappers' = [wrappers EXCEPT ![Len(wrappers)].actions = q.actions]
    /\ closed' = None

QApply ==
    /\ MayQueue(1)
    /\ QueueCall(QueueApply(history, Top.actions, NewAdd))
    /\ made' = made + 1
    /\ UNCHANGED <<timeline, mark, run>>

\* apply of a command whose apply returns Err.
ApplyFailing ==
    /\ Direct
    /\ With(TimelineApply(history, NewFailing), LAMBDA a :
         /\ a.res \notin Aborts
         /\ history' = Fresh(a.h)
         /\ run' = RunStep(run, "apply", a.res, a.h.record.receiver))
    /\ made' = made + 1
    /\ closed' = None
    /\ UNCHANGED <<timeline, wrappers, mark>>

\* apply of a command whose undo will return Err.
ApplyStuck ==
    /\ Direct
    /\ MayMake
    /\ With(TimelineApply(history, NewStuck), LAMBDA a :
         /\ a.res \notin Aborts
         /\ history' = Fresh(a.h)
         /\ run' = RunStep(run, "apply", a.res, a.h.record.receiver))
    /\ made' = made + 1
    /\ closed' = None
    /\ UNCHANGED <<timeline, wrappers, mark>>

\* Checkpoint::apply of a command whose apply returns Err.
CpApplyFailing ==
    /\ Through("Checkpoint")
    /\ CheckpointCall(IF timeline = "Record"
                      THEN CheckpointRecordApply(history, Top.actions, NewFailing)
                      ELSE CheckpointHistoryApply(history, Top.actions, NewFailing))
    /\ made' = made + 1
    /\ UNCHANGED <<timeline, mark, run>>

\* Queue::apply of a command whose apply will fail.
QApplyFailing ==
    /\ MayQueue(1)
    /\ QueueCall(QueueApply(history, Top.actions, NewFailing))
    /\ made' = made + 1
    /\ UNCHANGED <<timeline, mark, run>>

QUndo ==
    /\ MayQueue(1)
    /\ QueueCall(QueueUndo(history, Top.actions))
    /\ UNCHANGED <<timeline, made, mark, run>>

QRedo ==
    /\ MayQueue(1)
    /\ QueueCall(QueueRedo(history, Top.actions))
    /\ UNCHANGED <<timeline, made, mark, run>>

QGoTo(branch, current) ==
    /\ MayQueue(1)
    /\ QueueCall(IF timeline = "Record"
                 THEN QueueRecordGoTo(history, Top.actions, current)
                 ELSE QueueHistoryGoTo(history, Top.actions, branch, current))
    /\ UNCHANGED <<timeline, made, mark, run>>

\* Queue::extend with two commands.
QExtend ==
    /\ MayQueue(2)
    /\ QueueCall(QueueExtend(history, Top.actions, <<Add(made + 1), Add(made + 2)>>))
    /\ made' = made + 2
    /\ UNCHANGED <<timeline, mark, run>>

\* Queue::commit on the timeline it wraps.
QueueCommit(h, actions) ==
    IF timeline = "Record" THEN QueueRecordCommit(h, actions)
    ELSE QueueHistoryCommit(h, actions)

QCommit ==
    /\ Through("Queue")
    /\ With(QueueCommit(history, Top.actions), LAMBDA c :
         /\ history' = Fresh(c.h)
         /\ wrappers' = Consumed("commit", c.res)
         /\ closed' = Closed("commit", c.res))
    /\ UNCHANGED <<timeline, made, mark, run>>

QCancel ==
    /\ Through("Queue")
    /\ With(QueueCancel(history, Top.actions), LAMBDA c :
         /\ history' = Fresh(c.h)
         /\ wrappers' = Consumed("cancel", c.res)
         /\ closed' = Closed("cancel", c.res))
    /\ UNCHANGED <<timeline, made, mark, run>>

\* The branch ids and positions a go_to is tried with: every id allocated
\* and the next one, every position of a line and one beyond.
Branches == 0..history.next
Positions == 0..(MaxCommands + 1)

\* A History driven directly: apply, undo, redo, go_to.
Init == InitTimeline("History")
Next ==
    \/ Apply
    \/ Undo
    \/ Redo
    \/ \E branch \in Branches, current \in Positions : GoTo(branch, current)
    \/ Observe
Spec == Init /\ [][Next]_vars

\* A Record or a History driven by apply, undo and redo alone.
InitUndoRedo == \E t \in {"Record", "History"} : InitTimeline(t)
NextUndoRedo ==
    \/ Apply
    \/ Undo
    \/ Redo
    \/ Begin
SpecUndoRedo == InitUndoRedo /\ [][NextUndoRedo]_vars

\* A Record or a History used directly and through one checkpoint at a
\* time.
InitCheckpoint == \E t \in {"Record", "History"} : InitTimeline(t)
NextCheckpoint ==
    \/ MayWrap /\ Apply
    \/ Undo
    \/ Redo
    \/ SetSaved(TRUE)
    \/ Direct /\ OpenCheckpoint
    \/ MayWrap /\ CpApply
    \/ CpUndo
    \/ CpRedo
    \/ \E branch \in Branches, current \in Positions : CpGoTo(branch, current)
    \/ CpCancel
    \/ CpCommit
SpecCheckpoint == InitCheckpoint /\ [][NextCheckpoint]_vars

\* A fresh Record and checkpoints opened one from another.
InitNested == InitTimeline("Record")
NextNested ==
    \/ OpenCheckpoint
    \/ CpApply
    \/ CpCancel
    \/ CpCommit
SpecNested == InitNested /\ [][NextNested]_vars

\* A Record or a History used directly and through one queue at a time.
InitQueue == \E t \in {"Record", "History"} : InitTimeline(t)
NextQueue ==
    \/ MayWrap /\ Apply
    \/ Undo
    \/ Redo
    \/ Direct /\ OpenQueue
    \/ MayWrap /\ QApply
    \/ MayWrap /\ QApplyFailing
    \/ QUndo
    \/ QRedo
    \/ \E branch \in Branches, current \in 0..MaxWrapped : QGoTo(branch, current)
    \/ made + 2 <= MaxWrapped /\ QExtend
    \/ QCommit
    \/ QCancel
SpecQueue == InitQueue /\ [][NextQueue]_vars

\* The innermost queue holds no call of another kind than `act`.
OfKind(act) ==
    /\ wrappers # <<>>
    /\ \A i \in DOMAIN Top.actions : Top.actions[i].act = act

\* A fresh Record and queues obtained one from another, the outermost from
\* the record before any command was made, each used for calls of one kind.
InitQueueNested == InitTimeline("Record")
NextQueueNested ==
    \/ (Direct => made = 0) /\ OpenQueue
    \/ OfKind("Apply") /\ MayWrap /\ QApply
    \/ OfKind("Undo") /\ QUndo
    \/ OfKind("Redo") /\ QRedo
    \/ QCommit
    \/ QCancel
SpecQueueNested == InitQueueNested /\ [][NextQueueNested]_vars

\* The limits a client sets: from one entry to one less than the commands
\* it makes.
Limits == 1..(MaxCommands - 1)

\* A Record or a History with a limit: every call of the timeline.
InitLimit == \E t \in {"Record", "History"} : InitTimeline(t)
NextLimit ==
    \/ Apply
    \/ Undo
    \/ Redo
    \/ \E branch \in Branches, current \in Positions : GoTo(branch, current)
    \/ \E saved \in BOOLEAN : SetSaved(saved)
    \/ \E limit \in Limits : SetLimit(limit)
    \/ Revert
    \/ Clear
SpecLimit == InitLimit /\ [][NextLimit]_vars

\* A History whose client sets a limit once, long enough lived for a go_to
\* to cross two branches that hold more entries than the limit.
InitPrune == InitTimeline("History")
NextPrune ==
    \/ made < MaxEvicting /\ ApplyNew
    \/ Undo
    \/ Redo
    \/ \E branch \in Branches, current \in Positions : GoTo(branch, current)
    \/ \E limit \in Limits : history.record.limit = NoLimit /\ SetLimit(limit)
SpecPrune == InitPrune /\ [][NextPrune]_vars

\* The go_to returns Some(Ok).
Succeeds(branch, current) == TimelineGoTo(history, branch, current).res = "Ok"

\* A History without a limit that is saved, changed by calls that succeed,
\* and reverted.
InitSaved == InitTimeline("History")
NextSaved ==
    \/ Apply
    \/ Undo
    \/ Redo
    \/ \E branch \in Branches, current \in Positions :
         Succeeds(branch, current) /\ GoTo(branch, current)
    \/ Save
    \/ Revert
SpecSaved == InitSaved /\ [][NextSaved]_vars

\* A timeline built with a limit (the builder's limit(n)), then applies,
\* undos and redos, with enough commands to evict entries.
InitEvict == \E t \in {"Record", "History"} : InitTimeline(t)
NextEvict ==
    \/ \E limit \in Limits : made = 0 /\ history.record.limit = NoLimit /\ SetLimit(limit)
    \/ made < MaxEvicting /\ ApplyNew
    \/ Undo
    \/ Redo
SpecEvict == InitEvict /\ [][NextEvict]_vars

\* A timeline, directly and through one checkpoint, given commands that apply
\* and commands whose apply returns Err.
InitFailing == \E t \in {"Record", "History"} : InitTimeline(t)
NextFailing ==
    \/ MayWrap /\ Apply
    \/ MayWrap /\ ApplyFailing
    \/ Undo
    \/ Redo
    \/ SetSaved(TRUE)
    \/ Direct /\ OpenCheckpoint
    \/ MayWrap /\ CpApply
    \/ MayWrap /\ CpApplyFailing
    \/ CpUndo
    \/ CpRedo
    \/ CpCommit
SpecFailing == InitFailing /\ [][NextFailing]_vars

\* A History that is saved at any time, branches by undo and apply, and
\* evicts under a limit set once.
InitPruneSaved == InitTimeline("History")
NextPruneSaved ==
    \/ made < MaxEvicting /\ ApplyNew
    \/ Undo
    \/ Redo
    \/ SetSaved(TRUE)
    \/ \E limit \in Limits : history.record.limit = NoLimit /\ SetLimit(limit)
SpecPruneSaved == InitPruneSaved /\ [][NextPruneSaved]_vars

\* A History without a limit some of whose commands cannot be undone.
InitStuck == InitTimeline("History")
NextStuck ==
    \/ Apply
    \/ ApplyStuck
    \/ Undo
    \/ Redo
    \/ \E branch \in Branches, current \in Positions : GoTo(branch, current)
SpecStuck == InitStuck /\ [][NextStuck]_vars

\* -------------------------------------------------------------- properties
\* C1: after n successful applies, n undos bring the target back to the
\* value it had before the first of them, and n redos then bring it to the
\* value it had after the last; with n = 1, apply;undo;redo equals apply.
C1_UndoRedoRoundTrip ==
    /\ (run.phase = "undo" /\ run.k = run.n) => history.record.receiver = run.start
    /\ (run.phase = "redo" /\ run.k = run.n) => history.record.receiver = run.after

\* Three applies on a fresh timeline, three undos and three redos were made.
C1_Witness ==
    /\ run.phase = "redo" /\ run.k = run.n /\ run.n = 3
    /\ run.start = <<>>
    /\ Len(history.record.receiver) = 3

\* C2: a moment of a History observed as (branch, current, target) is
\* reached again by go_to(branch, current) after any later apply, undo,
\* redo and go_to: the call returns Some(Ok) and the target is the observed
\* one.
C2_GoToReturns ==
    IsSome(mark) =>
      With(HistoryGoTo(history, mark[1].branch, mark[1].current), LAMBDA g :
        /\ g.res = "Ok"
        /\ g.h.record.receiver = mark[1].receiver
        /\ g.h.root = mark[1].branch
        /\ g.h.record.current = mark[1].current)

\* The observed moment lies two branches away from the active one.
C2_Witness ==
    /\ IsSome(mark)
    /\ mark[1].branch # history.root
    /\ mark[1].branch \in DOMAIN history.branches
    /\ history.branches[mark[1].branch].parent.branch # history.root
    /\ mark[1].receiver # history.record.receiver

\* The last call was a cancel of a checkpoint over timeline `t`, it
\* returned Ok, and every change since the checkpoint was created had been
\* made through it.
Cancelled(t) ==
    /\ timeline = t
    /\ IsSome(closed)
    /\ closed[1].how = "cancel"
    /\ closed[1].res = "Ok"
    /\ ~closed[1].wrapper.escaped

\* The timeline when the checkpoint the last call consumed was created, and
\* the actions that checkpoint held.
Created == closed[1].wrapper.created
Log == closed[1].wrapper.actions

\* C3: a successful cancel of a Record checkpoint leaves the record with
\* the target, the cursor and the entries (the redo tail included) it had
\* when the checkpoint was created.
C3_CancelRestoresRecord ==
    Cancelled("Record") =>
      /\ history.record.receiver = Created.record.receiver
      /\ history.record.current = Created.record.current
      /\ history.record.commands = Created.record.commands

\* A cancelled Record checkpoint held two actions, one of them an apply
\* that had detached a redo tail.
C3_Witness ==
    /\ Cancelled("Record")
    /\ Len(Log) = 2
    /\ \E i \in DOMAIN Log : Log[i].act = "Apply" /\ Log[i].commands # <<>>

\* An apply through the cancelled checkpoint had detached a redo tail that
\* held the saved position.
DetachedSaved ==
    /\ Cancelled("Record")
    /\ IsSome(Created.record.saved)
    /\ Created.record.saved[1] > Created.record.current
    /\ \E i \in DOMAIN Log : Log[i].act = "Apply" /\ Log[i].commands # <<>>

\* C4: when applies through a Record checkpoint detached the redo tail
\* holding the saved position, the saved marker is back at that position
\* after cancel.
C4_CancelRestoresSaved ==
    DetachedSaved => history.record.saved = Created.record.saved

RECURSIVE Unwinds(_, _)
Unwinds(r, ws) ==
    \/ ws = <<>>
    \/ With(CheckpointRecordCancel(r, ws[Len(ws)].actions), LAMBDA c :
         /\ c.res = "Ok"
         /\ c.r.receiver = ws[Len(ws)].created.record.receiver
         /\ Unwinds(c.r, SubSeq(ws, 1, Len(ws) - 1)))

\* Every open checkpoint recorded all the changes made since it was opened.
AllRecorded == \A i \in DOMAIN wrappers : ~wrappers[i].escaped

\* C6: checkpoints opened one from another and used for applies unwind
\* level by level: cancelling the innermost restores the target of its
\* creation, and so does each enclosing one in turn, down to the target the
\* outermost was created on.
C6_NestedCancelUnwinds ==
    /\ AllRecorded => Unwinds(history.record, wrappers)
    /\ Cancelled("Record") => history.record.receiver = Created.record.receiver

\* Three checkpoints are open, one from another, each after an apply
\* through it, the outermost created on the fresh record.
C6_Witness ==
    /\ Len(wrappers) = 3
    /\ AllRecorded
    /\ \A i \in DOMAIN wrappers : wrappers[i].actions # <<>>
    /\ wrappers[1].created.record.receiver = <<>>
    /\ Len(history.record.receiver) = 3

\* C7: the step that commits a checkpoint leaves the timeline as it is:
\* target, cursor, entries, saved marker and branches.
C7_CommitKeepsTimeline ==
    [][(Len(wrappers') < Len(wrappers) /\ IsSome(closed') /\ closed'[1].how = "commit")
         => history' = history]_vars

\* A checkpoint holding two actions was committed and the timeline is not
\* the one the checkpoint was created on.
C7_Witness ==
    /\ IsSome(closed)
    /\ closed[1].how = "commit"
    /\ Len(Log) = 2
    /\ history # Created

\* A call on the open queue: the queue stays open and its actions change.
QueueCalled ==
    /\ Through("Queue")
    /\ Len(wrappers') = Len(wrappers)
    /\ wrappers' # wrappers

\* C8: a call of apply, undo, redo, go_to or extend on a queue leaves the
\* timeline as it is and appends to the queue one action, extend one for
\* each of its commands.
C8_QueueDefers ==
    [][QueueCalled =>
         /\ history' = history
         /\ Len(wrappers'[Len(wrappers)].actions)
              = Len(Top.actions) + (IF made' = made THEN 1 ELSE made' - made)
         /\ SubSeq(wrappers'[Len(wrappers)].actions, 1, Len(Top.actions)) = Top.actions]_vars

\* An open queue holds three actions, an apply and a go_to among them, over
\* a timeline that has entries and is as it was when the queue was opened.
C8_Witness ==
    /\ Through("Queue")
    /\ Len(Top.actions) = 3
    /\ \E i \in DOMAIN Top.actions : Top.actions[i].act = "Apply"
    /\ \E i \in DOMAIN Top.actions : Top.actions[i].act = "GoTo"
    /\ history.record.commands # <<>>
    /\ history = Top.created

\* The last call was the commit of a queue.
CommittedQueue ==
    /\ IsSome(closed)
    /\ closed[1].how = "commit"
    /\ closed[1].wrapper.kind = "Queue"

\* The first queued action whose command fails, or one past the last.
FirstFailing(log) ==
    With({i \in DOMAIN log : log[i].act = "Apply" /\ log[i].commands[1].kind = "Failing"},
         LAMBDA failing :
           IF failing = {} THEN Len(log) + 1
           ELSE CHOOSE i \in failing : \A j \in failing : i <= j)

\* The call an action stands for, made on the timeline itself.
DirectCall(h, action) ==
    IF action.act = "Apply" THEN TimelineApply(h, action.commands[1]).h
    ELSE IF action.act = "Undo" THEN HistoryUndo(h).h
    ELSE IF action.act = "Redo" THEN HistoryRedo(h).h
    ELSE TimelineGoTo(h, action.branch, action.current).h

\* The calls of `log` made on the timeline one after another.
RECURSIVE Sequential(_, _)
Sequential(h, log) ==
    IF log = <<>> THEN h
    ELSE DirectCall(Sequential(h, SubSeq(log, 1, Len(log) - 1)), log[Len(log)])

\* The timeline holds the command numbered `ch`, on the active branch or on
\* another.
Holds(h, ch) ==
    \/ \E i \in DOMAIN h.record.commands : h.record.commands[i].ch = ch
    \/ \E b \in DOMAIN h.branches :
         \E i \in DOMAIN h.branches[b].commands : h.branches[b].commands[i].ch = ch

\* C9: commit returns an error exactly when a queued command fails; it
\* leaves the timeline as the calls before the first failing one leave it
\* when made directly in the queued order, and no command queued after the
\* failing one has been executed.
C9_CommitInOrder ==
    CommittedQueue =>
      /\ closed[1].res = (IF FirstFailing(Log) <= Len(Log) THEN "Err" ELSE "Ok")
      /\ history = Fresh(Sequential(Created, SubSeq(Log, 1, FirstFailing(Log) - 1)))
      /\ \A i \in DOMAIN Log :
           (i >= FirstFailing(Log) /\ Log[i].act = "Apply")
             => ~Holds(history, Log[i].commands[1].ch)

\* A queue of an apply, a failing apply and another apply was committed.
C9_Witness ==
    /\ CommittedQueue
    /\ Len(Log) = 3
    /\ FirstFailing(Log) = 2
    /\ Log[1].act = "Apply"
    /\ Log[3].act = "Apply"
    /\ Holds(history, Log[1].commands[1].ch)

CancelledQueue ==
    /\ IsSome(closed)
    /\ closed[1].how = "cancel"
    /\ closed[1].wrapper.kind = "Queue"

\* C11: cancel of a queue executes none of its actions: the timeline, the
\* target with it, is the one the queue was created on, and the queue is
\* gone.
C11_CancelDiscards ==
    CancelledQueue =>
      /\ closed[1].res = "Ok"
      /\ history = Created
      /\ wrappers = <<>>

\* A queue holding three actions, an apply among them, was cancelled over a
\* timeline with entries that a commit would have changed.
C11_Witness ==
    /\ CancelledQueue
    /\ Len(Log) = 3
    /\ \E i \in DOMAIN Log : Log[i].act = "Apply" /\ Log[i].commands[1].kind = "Add"
    /\ history.record.commands # <<>>
    /\ Fresh(QueueCommit(history, Log).h) # history

\* The targets seen after each commit when the open queues `ws` over the
\* timeline `h` are committed from the innermost outwards.
RECURSIVE Targets(_, _)
Targets(h, ws) ==
    IF ws = <<>> THEN <<>>
    ELSE With(QueueCommit(h, ws[Len(ws)].actions), LAMBDA c :
           <<c.h.record.receiver>> \o Targets(Fresh(c.h), SubSeq(ws, 1, Len(ws) - 1)))

\* q1 = record.queue() holds three redos, q2 = q1.queue() three undos and
\* q3 = q2.queue() three applies, on a fresh record.
ThreeQueues ==
    /\ Len(wrappers) = 3
    /\ AllRecorded
    /\ wrappers[1].created = HistoryFrom(RecordNew)
    /\ wrappers[1].actions = <<QueuedRedo, QueuedRedo, QueuedRedo>>
    /\ wrappers[2].actions = <<QueuedUndo, QueuedUndo, QueuedUndo>>
    /\ wrappers[3].actions = <<QueuedApply(Add(1)), QueuedApply(Add(2)), QueuedApply(Add(3))>>

\* The step commits the innermost queue.
QueueCommitted ==
    /\ Through("Queue")
    /\ Len(wrappers') < Len(wrappers)
    /\ IsSome(closed') /\ closed'[1].how = "commit"

\* C12: while no queue has been committed the timeline is the one the
\* outermost queue was created on; the commit of the innermost queue makes
\* its calls on the shared record at once and leaves the actions of the
\* enclosing queues pending as they were; and with q1, q2, q3 as in the
\* crate's test, the commits of q3, q2 and q1 leave the targets "abc", ""
\* and "abc".
C12_NestedCommit ==
    /\ []((wrappers # <<>> /\ AllRecorded) => history = wrappers[1].created)
    /\ [](ThreeQueues => Targets(history, wrappers) = << <<1, 2, 3>>, <<>>, <<1, 2, 3>> >>)
    /\ [][QueueCommitted =>
            /\ history' = Fresh(Sequential(history, Top.actions))
            /\ Len(wrappers') = Len(wrappers) - 1
            /\ \A i \in DOMAIN wrappers' : wrappers'[i].actions = wrappers[i].actions]_vars

\* q3 was committed while q2 and q1 hold their undos and redos: the target
\* seen through q2 is "abc".
C12_Witness ==
    /\ Len(wrappers) = 2
    /\ wrappers[1].created = HistoryFrom(RecordNew)
    /\ wrappers[1].actions = <<QueuedRedo, QueuedRedo, QueuedRedo>>
    /\ wrappers[2].actions = <<QueuedUndo, QueuedUndo, QueuedUndo>>
    /\ CommittedQueue
    /\ Log = <<QueuedApply(Add(1)), QueuedApply(Add(2)), QueuedApply(Add(3))>>
    /\ Created = HistoryFrom(RecordNew)
    /\ history.record.receiver = <<1, 2, 3>>

\* C13: the record of every timeline keeps 0 <= current <= len <= limit.
C13_CursorInBounds ==
    /\ 0 <= history.record.current
    /\ history.record.current <= Len(history.record.commands)
    /\ Len(history.record.commands) <= history.record.limit

\* A History whose limit of two is reached after an eviction, with the
\* cursor at the end and branches stored.
C13_Witness ==
    /\ timeline = "History"
    /\ history.record.limit = 2
    /\ Len(history.record.commands) = 2
    /\ history.record.current = 2
    /\ Len(history.record.receiver) > 2
    /\ DOMAIN history.branches # {}

\* C14: a History never holds a saved position in its record and a saved
\* coordinate of another branch at once, and no apply, go_to or revert made
\* from a reachable state runs into the unreachable!() arm of the saved
\* match.
C14_OneSavedMarker ==
    timeline = "History" =>
      /\ ~(IsSome(history.record.saved) /\ IsSome(history.saved))
      /\ HistoryApply(history, NewAdd).res # "Unreachable"
      /\ HistoryRevert(history).res # "Unreachable"
      /\ \A branch \in Branches, current \in Positions :
           HistoryGoTo(history, branch, current).res # "Unreachable"

\* The saved marker lies on a stored branch of a History that has branched
\* twice, and the record has a redo tail for the next apply to detach.
C14_Witness ==
    /\ timeline = "History"
    /\ IsSome(history.saved)
    /\ history.saved[1].branch \in DOMAIN history.branches
    /\ history.next >= 3
    /\ CanRedo(history.record)

\* C15: in a History whose calls returned every stored branch hangs on the
\* active root or on another stored branch, and the active root is not
\* stored.
C15_BranchesHaveParents ==
    timeline = "History" =>
      /\ history.root \notin DOMAIN history.branches
      /\ \A b \in DOMAIN history.branches :
           /\ history.branches[b].parent.branch # b
           /\ \/ history.branches[b].parent.branch = history.root
              \/ history.branches[b].parent.branch \in DOMAIN history.branches

\* The branch ids a History has in use: the active root and the stored
\* branches.
Ids(h) == {h.root} \cup DOMAIN h.branches

\* C16 as stated: `next` never decreases, over the whole life of a History.
C16_NextNeverDecreases ==
    [][history'.next >= history.next]_vars

\* The history as clear() leaves it.
Cleared(h) ==
    /\ h.root = 0
    /\ h.next = 1
    /\ h.branches = [k \in {} |-> Branch(At(0, 0), <<>>)]
    /\ h.saved = None
    /\ h.record.commands = <<>>

\* C16 amended: every id in use was allocated from the counter, and as
\* long as the history is not cleared the counter never decreases and an
\* id that comes into use is the value of the counter, which then grows by
\* one; clear() puts the root back to 0 and the counter to 1.
C16_IdsFromCounter ==
    /\ [](\A id \in Ids(history) : id < history.next)
    /\ [][\/ Cleared(history')
           \/ /\ history'.next >= history.next
              /\ Ids(history') \ Ids(history) \subseteq {history.next}
              /\ history'.next = (IF Ids(history') \subseteq Ids(history)
                                  THEN history.next ELSE history.next + 1)]_vars

\* A History allocated the id 2 after the branch 0 had been pruned: the id
\* 0 is in use no more and was not given out again.
C16_Witness ==
    /\ timeline = "History"
    /\ history.next = 3
    /\ history.root = 2
    /\ 0 \notin Ids(history)

\* C17: after set_saved(true) and any calls of apply, undo, redo and go_to
\* that succeeded, revert returns Some(Ok) and the target is the saved one.
C17_RevertRestores ==
    IsSome(mark) =>
      With(HistoryRevert(history), LAMBDA g :
        /\ g.res = "Ok"
        /\ g.h.record.receiver = mark[1].receiver)

\* The saved state lies in a stored branch, the target differs from the saved
\* one, and revert walks back to the saved coordinate.
C17_Witness ==
    /\ IsSome(mark)
    /\ IsSome(history.saved)
    /\ history.root # mark[1].branch
    /\ history.record.receiver # mark[1].receiver
    /\ With(HistoryRevert(history), LAMBDA g :
         /\ g.res = "Ok"
         /\ g.h.root = mark[1].branch
         /\ g.h.record.current = mark[1].current
         /\ g.h.record.receiver = mark[1].receiver)

\* The part of the target that no held applied entry accounts for.
EvictedEffect(r) == SubSeq(r.receiver, 1, Len(r.receiver) - r.current)

\* Every command made so far is applied, in order.
AllApplied == history.record.receiver = [i \in 1..made |-> i]

\* C18: with limit L and more than L commands applied the record holds the L
\* most recent entries with current = L; the target is the effect of the
\* evicted prefix followed by the held applied entries, undo goes back to
\* position 0 at most (L steps), and the evicted effect is never undone.
C18_LimitKeepsMostRecent ==
    /\ [](history.record.limit # NoLimit =>
          With(history.record, LAMBDA r :
            /\ Len(r.commands) <= r.limit
            /\ r.current <= Len(r.commands)
            /\ Len(r.receiver) >= r.current
            /\ \A i \in 1..r.current :
                 r.receiver[Len(r.receiver) - r.current + i] = r.commands[i].ch
            /\ AllApplied /\ made > r.limit =>
                 /\ r.commands = [i \in 1..r.limit |-> Add(made - r.limit + i)]
                 /\ r.current = r.limit
            /\ r.current = 0 =>
                 With(HistoryUndo(history), LAMBDA u :
                   u.res = "None" /\ Fresh(u.h) = history)))
    /\ [][history.record.limit # NoLimit =>
           /\ Len(EvictedEffect(history.record)') >= Len(EvictedEffect(history.record))
           /\ SubSeq(EvictedEffect(history.record)', 1, Len(EvictedEffect(history.record)))
                = EvictedEffect(history.record)]_vars

\* Limit 3 and a, b, c, d, e applied: c, d, e are held, and two undos have
\* left the target at a, b, c with d and e to redo.
C18_Witness ==
    /\ history.record.limit = 3
    /\ made = 5
    /\ history.record.commands = <<Add(3), Add(4), Add(5)>>
    /\ history.record.current = 1
    /\ history.record.receiver = <<1, 2, 3>>
    /\ history.branches = <<>>

\* C19: a History::go_to that returns None leaves the history as it was and
\* emits no signal.
C19_GoToNoneChangesNothing ==
    \A branch \in Branches, current \in Positions :
      With(HistoryGoTo(history, branch, current), LAMBDA g :
        g.res = "None" => g.h = history)

\* What Checkpoint::apply returns for the timeline in use.
CheckpointApply(command) ==
    IF timeline = "Record" THEN CheckpointRecordApply(history, Top.actions, command)
    ELSE CheckpointHistoryApply(history, Top.actions, command)

\* The characters of the entries the history stores, stored branches included.
StoredChars(h) ==
    {h.record.commands[i].ch : i \in 1..Len(h.record.commands)}
      \cup UNION {{h.branches[b].commands[i].ch : i \in 1..Len(h.branches[b].commands)} :
                  b \in DOMAIN h.branches}

\* C20: apply returns Err exactly when the command's apply does, and then the
\* timeline is as before the call, no signal is emitted, and a checkpoint
\* pushes no action.
C20_FailedApplyChangesNothing ==
    /\ [](/\ With(TimelineApply(history, NewFailing), LAMBDA a :
               a.res = "Err" /\ a.h = history)
          /\ TimelineApply(history, NewAdd).res = "Ok"
          /\ Through("Checkpoint") =>
               /\ With(CheckpointApply(NewFailing), LAMBDA c :
                     c.res = "Err" /\ c.h = history /\ c.stack = Top.actions)
               /\ With(CheckpointApply(NewAdd), LAMBDA c :
                     c.res = "Ok" /\ Len(c.stack) = Len(Top.actions) + 1))
    /\ [][ApplyFailing \/ CpApplyFailing => history' = history /\ wrappers' = wrappers]_vars

\* A History with a stored branch is used through a checkpoint that has
\* recorded an action, and a command whose apply failed has left no entry.
C20_Witness ==
    /\ timeline = "History"
    /\ Through("Checkpoint")
    /\ Top.actions # <<>>
    /\ history.branches # <<>>
    /\ Cardinality(StoredChars(history)) < made
    /\ CheckpointApply(NewFailing).res = "Err"

\* The limits a client may ask for: from 1 to beyond every length.
AskedLimits == 1..(MaxCommands + 1)

\* The entries of a record from position `current` on.
RedoTail(r) == SubSeq(r.commands, r.current + 1, Len(r.commands))

Branched(h, g) ==
    /\ g.root = h.next
    /\ g.next = h.next + 1
    /\ DOMAIN g.branches = DOMAIN h.branches \cup {h.root}
    /\ g.branches[h.root] = Branch(At(h.next, h.record.current), RedoTail(h.record))
    /\ \A k \in DOMAIN h.branches :
         /\ g.branches[k].commands = h.branches[k].commands
         /\ g.branches[k].parent =
              (IF h.branches[k].parent.branch = h.root
                  /\ h.branches[k].parent.current <= h.record.current
               THEN At(h.next, h.branches[k].parent.current)
               ELSE h.branches[k].parent)

\* The apply evicts the front entry: the record is full and has no tail.
AtLimit(r) == r.current = r.limit

\* C22 as stated: an apply with a redo tail branches, and an apply without
\* one leaves root, next and the keys of the registry as they are.
C22_ApplyBranchesOnlyWithTail ==
    timeline = "History" =>
      With(HistoryApply(history, NewAdd), LAMBDA a :
        a.res = "Ok" =>
          IF CanRedo(history.record) THEN Branched(history, a.h)
          ELSE /\ a.h.root = history.root
               /\ a.h.next = history.next
               /\ DOMAIN a.h.branches = DOMAIN history.branches)

\* C22 amended: as stated, except that an apply without a redo tail that
\* evicts the front entry takes out of the registry the branches that hang
\* on position 0 of the root, and their descendants; no key is added.
C22_ApplyBranchesOrPrunes ==
    timeline = "History" =>
      With(HistoryApply(history, NewAdd), LAMBDA a :
        a.res = "Ok" =>
          IF CanRedo(history.record) THEN Branched(history, a.h)
          ELSE /\ a.h.root = history.root
               /\ a.h.next = history.next
               /\ DOMAIN a.h.branches \subseteq DOMAIN history.branches
               /\ ~AtLimit(history.record) => a.h.branches = history.branches
               /\ \A k \in DOMAIN history.branches :
                    history.branches[k].parent = At(history.root, 0) /\ AtLimit(history.record)
                      => k \notin DOMAIN a.h.branches)

\* The root 2 was allocated by an apply at position 0 of root 1: the tail
\* is stored as branch 1, and branch 0, which forked from root 1 beyond
\* position 0, still has branch 1 as its parent.
C22_Witness ==
    /\ timeline = "History"
    /\ history.root = 2
    /\ history.next = 3
    /\ DOMAIN history.branches = {0, 1}
    /\ history.branches[1].parent = At(2, 0)
    /\ history.branches[0].parent = At(1, 1)

\* The call's slot received the signal.
Signalled(h, signal) == \E i \in 1..Len(h.record.slot) : h.record.slot[i] = signal

\* C23: a revert, or a go_to to the coordinate saved by set_saved(true),
\* that returns Ok leaves the marker in the record of the active branch,
\* so that is_saved() is true, and a marker lifted out of history.saved is
\* announced by Saved(true).
C23_SavedLiftedOnArrival ==
    IsSome(mark) =>
      /\ With(HistoryRevert(history), LAMBDA g :
            g.res = "Ok" => IsSaved(g.h.record) /\ g.h.saved = None)
      /\ With(HistoryGoTo(history, mark[1].branch, mark[1].current), LAMBDA g :
            g.res = "Ok" =>
              /\ IsSaved(g.h.record)
              /\ g.h.saved = None
              /\ ~IsSaved(history.record) => Signalled(g.h, SigSaved(TRUE)))

\* C24: a branching apply that detaches a tail holding the saved position s
\* leaves record.saved = None and history.saved = (previous root, s).
C24_SavedFollowsDetachedTail ==
    /\ timeline = "History"
    /\ IsSome(history.record.saved)
    /\ history.record.saved[1] > history.record.current
    => With(HistoryApply(history, NewAdd), LAMBDA a :
        a.res = "Ok" =>
          /\ a.h.record.saved = None
          /\ a.h.saved = Some(At(history.root, history.record.saved[1]))
          /\ history.root \in DOMAIN a.h.branches)

\* The saved position 2 lies on the stored branch 0 that an apply at
\* position 1 has just detached from the new root.
C24_Witness ==
    /\ timeline = "History"
    /\ history.saved = Some(At(0, 2))
    /\ history.record.saved = None
    /\ history.root = 1
    /\ 0 \in DOMAIN history.branches
    /\ history.branches[0].parent = At(1, 1)
    /\ Len(history.branches[0].commands) >= 1
    /\ history.record.current = 2

\* C25: a marker in history.saved names a stored branch, never the active
\* root, at a position within that branch; a marker on the prefix that the
\* old and the new active line share stays in the record of the active
\* branch when an apply branches.
C25_SavedElsewhereIsStored ==
    timeline = "History" =>
      /\ IsSome(history.saved) =>
           /\ history.saved[1].branch # history.root
           /\ history.saved[1].branch \in DOMAIN history.branches
           /\ With(history.branches[history.saved[1].branch], LAMBDA b :
                /\ history.saved[1].current >= b.parent.current
                /\ history.saved[1].current <= b.parent.current + Len(b.commands))
      /\ (/\ IsSome(history.record.saved)
          /\ history.record.saved[1] <= history.record.current
          /\ CanRedo(history.record))
         => With(HistoryApply(history, NewAdd), LAMBDA a :
              a.res = "Ok" =>
                /\ a.h.record.saved = history.record.saved
                /\ a.h.saved = None)

\* The branches that hang, directly or through other branches, on the
\* branches in `ids`.
RECURSIVE WithDescendants(_, _)
WithDescendants(h, ids) ==
    With(ids \cup {k \in DOMAIN h.branches : h.branches[k].parent.branch \in ids},
         LAMBDA more : IF more = ids THEN ids ELSE WithDescendants(h, more))

\* The branches that die when the first `diff` entries of the root go.
Dead(h, diff) ==
    WithDescendants(h, {k \in DOMAIN h.branches :
                          /\ h.branches[k].parent.branch = h.root
                          /\ h.branches[k].parent.current < diff})

\* The registry and history.saved of g are those of h without the dead.
Pruned(h, g, dead) ==
    /\ DOMAIN g.branches = DOMAIN h.branches \ dead
    /\ \A k \in DOMAIN g.branches : g.branches[k].commands = h.branches[k].commands
    /\ g.saved = (IF IsSome(h.saved) /\ h.saved[1].branch \in dead THEN None ELSE h.saved)

\* C26: an apply at the limit and a set_limit that evict entries of the
\* root remove the branches hanging on the evicted positions and all their
\* descendants, and no other branch; history.saved is cleared exactly when
\* it named a removed branch.
C26_EvictionPrunesDescendants ==
    /\ AtLimit(history.record) =>
         With(HistoryApply(history, NewAdd), LAMBDA a :
           a.res = "Ok" => Pruned(history, a.h, Dead(history, 1)))
    /\ \A n \in Limits :
         With(HistorySetLimit(history, n), LAMBDA g :
           Pruned(history, g,
                  Dead(history, Len(history.record.commands) - Len(g.record.commands))))

\* The record is at its limit, a branch hangs on position 0 of the root and
\* another branch hangs on that branch: the next apply removes both, and
\* takes history.saved with them.
C26_Witness ==
    /\ AtLimit(history.record)
    /\ \E b, c \in DOMAIN history.branches :
         /\ history.branches[b].parent = At(history.root, 0)
         /\ history.branches[c].parent.branch = b
         /\ history.saved # None
         /\ history.saved[1].branch \in {b, c}
         /\ With(HistoryApply(history, NewAdd), LAMBDA a :
              /\ a.res = "Ok"
              /\ b \notin DOMAIN a.h.branches
              /\ c \notin DOMAIN a.h.branches
              /\ a.h.saved = None)

\* The call that led from h to g has left the history without the saved
\* marker it had.
MarkerLost(h, g) ==
    /\ IsSome(h.saved) \/ IsSome(h.record.saved)
    /\ g.saved = None
    /\ g.record.saved = None

\* C27: an apply at the limit and a set_limit that leave a History without
\* its saved marker deliver Saved(false) to the slot during the call.
C27_EvictionSignalsUnsaved ==
    timeline = "History" =>
      /\ AtLimit(history.record) =>
           With(HistoryApply(history, NewAdd), LAMBDA a :
             a.res = "Ok" /\ MarkerLost(history, a.h) => Signalled(a.h, SigSaved(FALSE)))
      /\ \A n \in Limits :
           With(HistorySetLimit(history, n), LAMBDA g :
             MarkerLost(history, g) => Signalled(g, SigSaved(FALSE)))

\* The first n elements of a sequence, or all of it if it is shorter.
Prefix(seq, n) == SubSeq(seq, 1, IF n <= Len(seq) THEN n ELSE Len(seq))

\* The characters of a sequence of entries.
Chars(entries) == [i \in 1..Len(entries) |-> entries[i].ch]

\* The commands that lead from the oldest held node to the end of branch
\* `id`: the parent's commands up to the fork, then the branch's own. `fuel`
\* bounds the walk up the parents.
RECURSIVE Line(_, _, _)
Line(h, id, fuel) ==
    IF id = h.root THEN Chars(h.record.commands)
    ELSE IF id \notin DOMAIN h.branches \/ fuel = 0 THEN <<>>
    ELSE Prefix(Line(h, h.branches[id].parent.branch, fuel - 1),
                h.branches[id].parent.current)
           \o Chars(h.branches[id].commands)

\* The target at the coordinate (id, current): the evicted effect, then the
\* first `current` commands of the line.
NodeAt(h, id, current) ==
    EvictedEffect(h.record) \o Prefix(Line(h, id, h.next), current)

\* Every coordinate the history stores lies on the line it names.
WellFormed(h) ==
    /\ \A k \in DOMAIN h.branches :
         /\ h.branches[k].parent.branch \in DOMAIN h.branches \cup {h.root}
         /\ h.branches[k].parent.current
              <= Len(Line(h, h.branches[k].parent.branch, h.next))
    /\ IsSome(h.saved) /\ h.saved[1].branch \in DOMAIN h.branches =>
         h.saved[1].current <= Len(Line(h, h.saved[1].branch, h.next))

\* The eviction that led from h to g, removing `diff` entries, has kept the
\* nodes of the surviving branches and of history.saved, and go_to reaches
\* every surviving branch without panicking.
NodesKept(h, g, diff) ==
    /\ \A k \in DOMAIN g.branches :
         /\ EvictedEffect(g.record) \o Line(g, k, g.next)
              = EvictedEffect(h.record) \o Line(h, k, h.next)
         /\ \A current \in Positions : HistoryGoTo(g, k, current).res \notin Aborts
    /\ IsSome(g.saved) /\ g.saved[1].branch \in DOMAIN g.branches =>
         /\ IsSome(h.saved)
         /\ NodeAt(g, g.saved[1].branch, g.saved[1].current)
              = NodeAt(h, h.saved[1].branch, h.saved[1].current)

\* C28: after an apply at the limit or a set_limit has evicted entries of
\* the root, every remaining branch, also one that hangs on another stored
\* branch, and the coordinate in history.saved denote the nodes they
\* denoted before, and go_to to a remaining branch does not panic.
C28_EvictionKeepsNodes ==
    timeline = "History" /\ WellFormed(history) =>
      /\ AtLimit(history.record) =>
           With(HistoryApply(history, NewAdd), LAMBDA a :
             a.res = "Ok" => NodesKept(history, a.h, 1))
      /\ \A n \in Limits :
           With(HistorySetLimit(history, n), LAMBDA g :
             NodesKept(history, g, Len(history.record.commands) - Len(g.record.commands)))

\* The targets that go_to can reach: every position of every line.
Nodes(h) ==
    UNION {{Prefix(Line(h, k, h.next), c) : c \in 0..Len(Line(h, k, h.next))} :
             k \in Ids(h)}

\* C29: a History::go_to across branches that returns the error of a
\* command leaves every branch it found in the registry or as the root,
\* every stored branch hanging on the root or on a stored branch, and
\* every node reachable as before.
C29_GoToErrKeepsTree ==
    WellFormed(history) =>
      \A branch \in DOMAIN history.branches, current \in Positions :
        With(HistoryGoTo(history, branch, current), LAMBDA g :
          g.res = "Err" =>
            /\ DOMAIN history.branches \subseteq DOMAIN g.h.branches \cup {g.h.root}
            /\ \A k \in DOMAIN g.h.branches :
                 g.h.branches[k].parent.branch \in DOMAIN g.h.branches \cup {g.h.root}
            /\ Nodes(history) \subseteq Nodes(g.h))

\* What the slot received says Saved(b) only for a flip of is_saved() to
\* b: the signals of the call are run through from the value before it.
RECURSIVE SavedFlips(_, _)
SavedFlips(slot, saved) ==
    IF slot = <<>> THEN TRUE
    ELSE IF Head(slot).sig # "Saved" THEN SavedFlips(Tail(slot), saved)
    ELSE Head(slot).val # saved /\ SavedFlips(Tail(slot), Head(slot).val)

\* The last Saved signal of the call, if there is one, is the value of
\* is_saved() after the call.
SavedSettles(g) ==
    \A i \in 1..Len(g.record.slot) :
      (/\ g.record.slot[i].sig = "Saved"
       /\ \A j \in (i + 1)..Len(g.record.slot) : g.record.slot[j].sig # "Saved")
      => g.record.slot[i].val = IsSaved(g.record)

\* The call that led to g sent its Saved signals for flips only.
SavedHonest(g) ==
    SavedFlips(g.record.slot, IsSaved(history.record)) /\ SavedSettles(g)

\* C30: apply, go_to, set_saved and revert on a History send Saved(b) only
\* when is_saved() flips to b, and is_saved() is b after the call.
C30_SavedOnlyOnFlip ==
    timeline = "History" =>
      /\ SavedHonest(HistoryApply(history, NewAdd).h)
      /\ \A branch \in Branches, current \in Positions :
           SavedHonest(HistoryGoTo(history, branch, current).h)
      /\ \A saved \in BOOLEAN : SavedHonest(HistorySetSaved(history, saved))
      /\ SavedHonest(HistoryRevert(history).h)

\* The Branch signals the slot received during a call, in order.
BranchSignals(h) == SelectSeq(h.record.slot, LAMBDA signal : signal.sig = "Branch")

\* The call that led from the state to g sent Branch{old, new} exactly if
\* it changed the root, from old to new.
BranchHonest(g) ==
    BranchSignals(g) = (IF g.root # history.root
                        THEN <<SigBranch(history.root, g.root)>> ELSE <<>>)

\* C31: each call on a History sends one Branch{old, new} if it changed the
\* root from old to new, and no Branch signal if it left the root as it was.
C31_BranchSignalIffRootChanged ==
    timeline = "History" =>
      /\ BranchHonest(HistoryApply(history, NewAdd).h)
      /\ BranchHonest(HistoryUndo(history).h)
      /\ BranchHonest(HistoryRedo(history).h)
      /\ BranchHonest(HistoryClear(history))
      /\ \A branch \in Branches, current \in Positions :
           BranchHonest(HistoryGoTo(history, branch, current).h)

\* g is h but for the saved markers and the signals of the call.
SameButSaved(h, g) ==
    [g EXCEPT !.saved = h.saved, !.record.saved = h.record.saved,
              !.record.slot = h.record.slot] = h

\* C32: set_saved(true) leaves the marker at the cursor of the active branch
\* and nowhere else, so that is_saved() is true; set_saved(false) leaves no
\* marker; neither changes anything but the markers.
C32_SetSavedMarksCursor ==
    timeline = "History" =>
      /\ With(HistorySetSaved(history, TRUE), LAMBDA g :
            /\ g.record.saved = Some(history.record.current)
            /\ g.saved = None
            /\ IsSaved(g.record)
            /\ SameButSaved(history, g))
      /\ With(HistorySetSaved(history, FALSE), LAMBDA g :
            /\ g.record.saved = None
            /\ g.saved = None
            /\ ~IsSaved(g.record)
            /\ SameButSaved(history, g))

\* The marker lies on a stored branch and the active branch is not saved:
\* set_saved(true) brings the marker to the cursor, set_saved(false)
\* forgets it.
C32_Witness ==
    /\ timeline = "History"
    /\ IsSome(history.saved)
    /\ history.saved[1].branch \in DOMAIN history.branches
    /\ history.record.current > 0
    /\ HistorySetSaved(history, TRUE).record.saved = Some(history.record.current)
    /\ HistorySetSaved(history, TRUE).saved = None
    /\ HistorySetSaved(history, FALSE).saved = None

\* ------------------------------------------------ the log of a checkpoint
\* Checkpoint::apply of a command whose undo fails.
CpApplyStuck ==
    /\ Through("Checkpoint")
    /\ MayRecord
    /\ MayMake
    /\ CheckpointCall(IF timeline = "Record"
                      THEN CheckpointRecordApply(history, Top.actions, NewStuck)
                      ELSE CheckpointHistoryApply(history, Top.actions, NewStuck))
    /\ made' = made + 1
    /\ UNCHANGED <<timeline, mark, run>>

\* A record or a history, used directly and then through one checkpoint
\* until the checkpoint is cancelled, with commands whose undo fails among
\* the others.
InitLog == \E t \in {"Record", "History"} : InitTimeline(t)

NextLog ==
    \/ closed = None /\ MayWrap /\ Apply
    \/ closed = None /\ MayWrap /\ ApplyStuck
    \/ closed = None /\ Undo
    \/ closed = None /\ Direct /\ OpenCheckpoint
    \/ CpApply
    \/ CpApplyStuck
    \/ CpUndo
    \/ CpRedo
    \/ \E branch \in Branches, current \in Positions : CpGoTo(branch, current)
    \/ CpCancel

SpecLog == InitLog /\ [][NextLog]_vars

\* The log after a call: one more entry when the call succeeded, the same
\* log when it returned None or an error.
Logged(c, stack, action) ==
    /\ c.res = "Ok" => c.stack = stack \o <<action>>
    /\ c.res \in {"None", "Err"} => c.stack = stack

LoggedOne(c, stack) ==
    /\ c.res = "Ok" => Len(c.stack) = Len(stack) + 1
                       /\ SubSeq(c.stack, 1, Len(stack)) = stack
    /\ c.res \in {"None", "Err"} => c.stack = stack

Left == [act |-> "GoTo", branch |-> history.root,
         current |-> history.record.current, commands |-> <<>>]

LeftInRecord == [Left EXCEPT !.branch = 0]

Commands == {NewAdd, NewFailing, NewStuck}

\* C33: through a checkpoint, a call that succeeds adds exactly one entry to
\* the log and a call that returns None or an error adds none; the entry is
\* Undo for undo, Redo for redo, GoTo(0, prior current) for a go_to in a
\* record and GoTo(prior root, prior current) for an apply or a go_to in a
\* history.
C33_LogGrowsOnSuccess ==
    Through("Checkpoint") =>
      IF timeline = "Record"
      THEN /\ \A command \in Commands :
                LoggedOne(CheckpointRecordApply(history, Top.actions, command),
                          Top.actions)
           /\ Logged(CheckpointRecordUndo(history, Top.actions), Top.actions,
                     [Left EXCEPT !.act = "Undo", !.branch = 0, !.current = 0])
           /\ Logged(CheckpointRecordRedo(history, Top.actions), Top.actions,
                     [Left EXCEPT !.act = "Redo", !.branch = 0, !.current = 0])
           /\ \A current \in Positions :
                Logged(CheckpointRecordGoTo(history, Top.actions, current),
                       Top.actions, LeftInRecord)
      ELSE /\ \A command \in Commands :
                Logged(CheckpointHistoryApply(history, Top.actions, command),
                       Top.actions, Left)
           /\ Logged(CheckpointHistoryUndo(history, Top.actions), Top.actions,
                     [Left EXCEPT !.act = "Undo", !.branch = 0, !.current = 0])
           /\ Logged(CheckpointHistoryRedo(history, Top.actions), Top.actions,
                     [Left EXCEPT !.act = "Redo", !.branch = 0, !.current = 0])
           /\ \A branch \in Branches, current \in Positions :
                Logged(CheckpointHistoryGoTo(history, Top.actions, branch, current),
                       Top.actions, Left)

\* A record checkpoint with one action in its log, on a command whose undo
\* fails and with a tail to redo: a go_to along the tail succeeds and logs
\* the position it left, an undo fails, a go_to past the end returns None.
C33_Witness ==
    /\ Through("Checkpoint")
    /\ timeline = "Record"
    /\ Len(Top.actions) = 1
    /\ history.record.current = 1
    /\ CheckpointRecordGoTo(history, Top.actions, 3).res = "Ok"
    /\ CheckpointRecordGoTo(history, Top.actions, 3).stack[2].current = 1
    /\ CheckpointRecordUndo(history, Top.actions).res = "Err"
    /\ CheckpointRecordGoTo(history, Top.actions, 4).res = "None"

\* The inverse of one logged action, as one arm of cancel performs it.
CancelAction(h, action) ==
    IF timeline = "Record"
    THEN With(CancelRecordAction(h.record, action), LAMBDA c :
           [res |-> c.res, h |-> [h EXCEPT !.record = c.r]])
    ELSE CancelHistoryAction(h, action)

\* What remains of the log once its last action is taken back.
Earlier(stack) == SubSeq(stack, 1, Len(stack) - 1)

\* C34: cancel takes the log from its last action to its first; when an
\* inverse operation fails, cancel returns that error with the timeline as
\* the failed operation left it, the actions recorded earlier not taken back
\* and the ones taken back before it not restored.
C34_CancelStopsAtFirstError ==
    (Through("Checkpoint") /\ Top.actions # <<>>) =>
      With(CancelAction(history, Top.actions[Len(Top.actions)]), LAMBDA last :
        With(CheckpointCancel(history, Top.actions), LAMBDA c :
          /\ last.res # "Ok" => c = last
          /\ last.res = "Ok" => c = CheckpointCancel(last.h, Earlier(Top.actions))
          /\ c.res = "Err" =>
               \E k \in DOMAIN Top.actions :
                 With(CheckpointCancel(history,
                                       SubSeq(Top.actions, k + 1, Len(Top.actions))),
                      LAMBDA later :
                        /\ later.res = "Ok"
                        /\ CancelAction(later.h, Top.actions[k]) = c)))

\* A log of two actions whose last is taken back and whose first cannot be:
\* cancel returns the error and the timeline is neither as it was before
\* cancel nor as it was when the checkpoint was made.
C34_Witness ==
    /\ Through("Checkpoint")
    /\ Len(Top.actions) = 2
    /\ CancelAction(history, Top.actions[2]).res = "Ok"
    /\ CancelAction(history, Top.actions[2]).h.record.receiver
         # history.record.receiver
    /\ CheckpointCancel(history, Top.actions).res = "Err"
    /\ CheckpointCancel(history, Top.actions).h.record.receiver
         = CancelAction(history, Top.actions[2]).h.record.receiver

\* An inner checkpoint, made from the open one by checkpoint(), was used
\* and has just been committed.
InnerCommitted ==
    /\ Through("Checkpoint")
    /\ IsSome(closed)
    /\ closed[1].how = "commit"
    /\ closed[1].wrapper.kind = "Checkpoint"
    /\ closed[1].wrapper.actions # <<>>

\* C35: after an inner checkpoint made from a checkpoint was used and
\* committed, cancelling the outer checkpoint returns the record to the
\* state it had when the outer checkpoint was made.
C35_OuterCoversCommittedInner ==
    InnerCommitted =>
      With(CheckpointCancel(history, Top.actions), LAMBDA c :
        /\ c.res = "Ok"
        /\ c.h.record.receiver = Top.created.record.receiver
        /\ c.h.record.current = Top.created.record.current
        /\ c.h.record.commands = Top.created.record.commands)

\* ------------------------------------------------ a checkpoint under a limit
\* A record or a history with a limit set at the start, filled directly and
\* then used through one checkpoint until the checkpoint is closed.
InitLimitCheckpoint == \E t \in {"Record", "History"} : InitTimeline(t)

NextLimitCheckpoint ==
    \/ \E limit \in Limits :
         made = 0 /\ history.record.limit = NoLimit /\ SetLimit(limit)
    \/ closed = None /\ MayWrap /\ Apply
    \/ closed = None /\ Undo
    \/ closed = None /\ Direct /\ OpenCheckpoint
    \/ CpApply
    \/ CpUndo
    \/ CpCancel
    \/ CpCommit

SpecLimitCheckpoint == InitLimitCheckpoint /\ [][NextLimitCheckpoint]_vars

\* The checkpoint was made on a timeline filled to its limit with the cursor
\* at the end, and the first call through it was an apply: that apply
\* evicted the front entry.
EvictedThrough(created, log) ==
    /\ created.record.limit # NoLimit
    /\ Len(created.record.commands) = created.record.limit
    /\ created.record.current = created.record.limit
    /\ log # <<>>
    /\ log[1].act = (IF timeline = "Record" THEN "Apply" ELSE "GoTo")

\* C36: under a limit, when an apply through a checkpoint evicted the front
\* entry, a cancel that succeeds leaves the target, the cursor and the
\* entries as they were when the checkpoint was made, for a record and for
\* a history.
C36_CancelExactAfterEviction ==
    \A t \in {"Record", "History"} :
      (Cancelled(t) /\ EvictedThrough(Created, Log)) =>
        /\ history.record.receiver = Created.record.receiver
        /\ history.record.current = Created.record.current
        /\ history.record.commands = Created.record.commands

\* ------------------------------------------------ commit of a queue
\* A record or a history, used directly and then through one queue until
\* the queue is committed.
InitSkip == \E t \in {"Record", "History"} : InitTimeline(t)

NextSkip ==
    \/ closed = None /\ made + 1 < MaxWrapped /\ Apply
    \/ closed = None /\ Undo
    \/ closed = None /\ Direct /\ OpenQueue
    \/ MayWrap /\ QApply
    \/ MayWrap /\ QApplyFailing
    \/ QUndo
    \/ QRedo
    \/ \E branch \in Branches, current \in 0..MaxWrapped : QGoTo(branch, current)
    \/ QCommit

SpecSkip == InitSkip /\ [][NextSkip]_vars

\* The queued actions other than apply.
Moves ==
    {QueuedUndo, QueuedRedo}
      \cup {QueuedGoTo(IF timeline = "Record" THEN 0 ELSE branch, current) :
              branch \in Branches, current \in Positions}

\* The call a queued move stands for, made on the timeline itself.
Moved(h, action) ==
    IF action.act = "Undo" THEN HistoryUndo(h)
    ELSE IF action.act = "Redo" THEN HistoryRedo(h)
    ELSE TimelineGoTo(h, action.branch, action.current)

\* C37: in commit, a queued undo, redo or go_to that returns None is no
\* error: commit goes on with the next action, an undo, a redo and a go_to
\* of a record leaving the timeline untouched; and commit returns Ok when
\* no queued command fails.
C37_CommitSkipsNone ==
    Through("Queue") =>
      /\ \A action \in Moves :
           With(Moved(history, action), LAMBDA u :
             u.res = "None" =>
               /\ QueueCommit(history, <<action>> \o Top.actions)
                    = QueueCommit(u.h, Top.actions)
               /\ (action.act # "GoTo" \/ timeline = "Record") => u.h = history
               /\ QueueCommit(history, Top.actions \o <<action>>).res
                    = QueueCommit(history, Top.actions).res)
      /\ FirstFailing(Top.actions) > Len(Top.actions)
           => QueueCommit(history, Top.actions).res = "Ok"

\* A queue holds an undo, a redo and an apply over a fresh timeline: the
\* undo and the redo return None when commit runs them, and commit returns
\* Ok with the command applied.
C37_Witness ==
    /\ Through("Queue")
    /\ history.record.commands = <<>>
    /\ Len(Top.actions) = 3
    /\ Top.actions[1] = QueuedUndo
    /\ Top.actions[2] = QueuedRedo
    /\ Top.actions[3].act = "Apply"
    /\ QueueCommit(history, Top.actions).res = "Ok"
    /\ Len(QueueCommit(history, Top.actions).h.record.receiver) = 1

\* The ids on the way from the active root to the stored branch `to`, the
\* root among them and `to` not.
PathIds(h, to) ==
    ({h.root} \cup {mk_path(h, to).path[k].id : k \in DOMAIN mk_path(h, to).path})
      \ {to}

\* C38: when go_to(b, c) returns Ok the active branch is b, the cursor is c,
\* b is no longer stored and every branch that lay between the old root and
\* b is stored, the old root among them.
C38_GoToArrives ==
    timeline = "History" =>
      \A branch \in Branches, current \in Positions :
        With(HistoryGoTo(history, branch, current), LAMBDA g :
          g.res = "Ok" =>
            /\ g.h.root = branch
            /\ g.h.record.current = current
            /\ branch \notin DOMAIN g.h.branches
            /\ branch # history.root =>
                 PathIds(history, branch) \subseteq DOMAIN g.h.branches)

\* The ids met on the way up from a stored branch, the branch itself first,
\* up to the root or to an id that names nothing.
Ancestry(h, id) == [k \in DOMAIN mk_path(h, id).path |->
                      mk_path(h, id).path[Len(mk_path(h, id).path) + 1 - k].id]

\* C39: from every stored branch the parent links lead to the active root
\* without meeting an id twice, so that mk_path comes to an end and its
\* unwrap finds every id it looks up, whatever go_to is asked.
C39_ParentsFormTree ==
    timeline = "History" =>
      /\ history.root \notin DOMAIN history.branches
      /\ \A id \in DOMAIN history.branches :
           /\ mk_path(history, id).res = "Ok"
           /\ Ancestry(history, id)[1] = id
           /\ \A j, k \in DOMAIN Ancestry(history, id) :
                Ancestry(history, id)[j] = Ancestry(history, id)[k] => j = k
           /\ \A k \in DOMAIN Ancestry(history, id) :
                history.branches[Ancestry(history, id)[k]].parent.branch
                  = (IF k = Len(Ancestry(history, id)) THEN history.root
                     ELSE Ancestry(history, id)[k + 1])

\* Every branch that hangs on `root` does so at position `diff` or later,
\* so that `parent.current -= diff` stays in the unsigned range.
Shiftable(h, root, diff) ==
    \A id \in DOMAIN h.branches :
      h.branches[id].parent.branch = root => h.branches[id].parent.current >= diff

\* C40: the subtractions that shift the branch coordinates after an
\* eviction do not underflow: when apply evicts the front entry and when
\* set_limit evicts `diff` entries, rm_child has removed every child of the
\* root below the shift before it is subtracted; `len - self.len()` in
\* set_limit is not negative; and no stored coordinate is ever negative.
C40_ShiftsDoNotUnderflow ==
    timeline = "History" =>
      /\ \A id \in DOMAIN history.branches :
           history.branches[id].parent.current \in Nat
      /\ \A limit \in AskedLimits :
           With(RecordSetLimit(history.record, limit), LAMBDA r :
             With(Len(history.record.commands) - Len(r.commands), LAMBDA diff :
               /\ diff \in Nat
               /\ Shiftable(RemoveEvicted([history EXCEPT !.record = r],
                                          history.root, 0, diff),
                            history.root, diff)))
      /\ With(Record__apply(history.record, NewAdd), LAMBDA a :
           (a.ok /\ ~a.merged /\ history.record.current = a.r.current) =>
             Shiftable(rm_child([history EXCEPT !.record = a.r], history.root, 0),
                       history.root, 1))

\* The record holds three entries with the cursor at the end and a branch
\* hangs on the second: set_limit(1) evicts two entries and removes the
\* branch before the shift by two.
C40_Witness ==
    /\ timeline = "History"
    /\ Len(history.record.commands) = 3
    /\ history.record.current = 3
    /\ \E id \in DOMAIN history.branches :
         history.branches[id].parent = At(history.root, 1)
    /\ Len(RecordSetLimit(history.record, 1).commands) = 1
    /\ DOMAIN HistorySetLimit(history, 1).branches = {}

=============================================================================
